---- MODULE Spec2Model ----
(***************************************************************************)
(* State-machine model of the Synaccess netCommander protocol client      *)
(* (src/src/netcommander/client.py and const.py) with the data model of   *)
(* netcommander_lib/models.py.                                            *)
(*                                                                         *)
(* Text is modelled as a sequence of one-character strings, so that        *)
(* splitting, trimming, prefix tests, indexing and number parsing are      *)
(* computed character by character as the Python code computes them.       *)
(***************************************************************************)
EXTENDS Integers, Sequences, FiniteSets, TLC

VARIABLES
    session,            \* self._session: 0 is None, otherwise the session's identity
    external_session,   \* self._external_session
    nsessions,          \* number of sessions that exist so far (identities 1..nsessions)
    closed,             \* identities of the sessions on which close() was awaited
    reqs,               \* HTTP requests issued by the most recent call, in order
    last,               \* the most recent call: operation, arguments, outcome
    input,              \* the text under test: a response (parsers), the host (config flow)
    external_auth,      \* does the session the caller supplied carry BasicAuth by default
    batch,              \* turn_on_all / turn_off_all in progress: its loop state
    inflight,           \* requests sent whose answer has not arrived yet
    cached_device_info, \* the coordinator's self.device_info (None until fetched)
    calls,              \* client methods called by the most recent integration call, in order
    relays              \* the device's relays as its status shows them (legacy API only)

vars == <<session, external_session, nsessions, closed, reqs, last, input,
          external_auth, batch, inflight, cached_device_info, calls, relays>>

----------------------------------------------------------------------------
(* Bounds of the model                                                     *)

\* Largest number of comma-separated fields in a generated device response.
MaxFields == 4
\* Largest number of HTTP sessions that come to exist in one behaviour.
MaxSessions == 2

----------------------------------------------------------------------------
(* const.py                                                                *)

NUM_OUTLETS == 5
OUTLET_RANGE == 1 .. NUM_OUTLETS

CMD_GET_STATUS == <<"$", "A", "5">>
CMD_SET_OUTLET == <<"$", "A", "3">>
CMD_TOGGLE_OUTLET == <<"r", "l", "y">>
RESPONSE_SUCCESS == <<"$", "A", "0">>
RESPONSE_FAILED == <<"$", "A", "F">>

\* A plausible slip: the status string read left to right.
get_status_position_forward(outlet_number) == outlet_number - 1

get_status_position(outlet_number) == NUM_OUTLETS - outlet_number

\* A plausible slip: the toggle addressed with the 1-based outlet number.
get_rly_index_one_based(outlet_number) == outlet_number

get_rly_index(outlet_number) == outlet_number - 1

----------------------------------------------------------------------------
(* Python text primitives                                                  *)

Whitespace == {" ", "\t", "\n", "\r"}
Digits == {"0", "1", "2", "3", "4", "5", "6", "7", "8", "9"}

\* str.startswith
StartsWith(s, prefix) ==
    /\ Len(s) >= Len(prefix)
    /\ SubSeq(s, 1, Len(prefix)) = prefix

\* position of the first occurrence of a character of cs in s, 0 when there is none
FirstOf(s, cs) ==
    IF \E i \in 1 .. Len(s) : s[i] \in cs
    THEN CHOOSE i \in 1 .. Len(s) : s[i] \in cs /\ \A j \in 1 .. (i - 1) : s[j] \notin cs
    ELSE 0

RECURSIVE Split(_, _)
\* str.split(sep) for a one-character separator: always at least one field
Split(s, sep) ==
    LET i == FirstOf(s, {sep})
    IN  IF i = 0 THEN <<s>>
        ELSE <<SubSeq(s, 1, i - 1)>> \o Split(SubSeq(s, i + 1, Len(s)), sep)

RECURSIVE Join(_, _)
\* sep.join(fields)
Join(fields, sep) ==
    IF Len(fields) = 0 THEN <<>>
    ELSE IF Len(fields) = 1 THEN fields[1]
    ELSE fields[1] \o <<sep>> \o Join(Tail(fields), sep)

\* str.strip(): leading and trailing whitespace removed
Strip(s) ==
    IF \A i \in 1 .. Len(s) : s[i] \in Whitespace THEN <<>>
    ELSE LET first == CHOOSE i \in 1 .. Len(s) :
                          s[i] \notin Whitespace /\ \A j \in 1 .. (i - 1) : s[j] \in Whitespace
             lastc == CHOOSE i \in 1 .. Len(s) :
                          s[i] \notin Whitespace /\ \A j \in (i + 1) .. Len(s) : s[j] \in Whitespace
         IN  SubSeq(s, first, lastc)

\* s[i] with Python's 0-based index; negative indices count from the end
IndexInRange(s, i) == -Len(s) <= i /\ i < Len(s)
PyIndex(s, i) == IF i >= 0 THEN s[i + 1] ELSE s[Len(s) + i + 1]

\* str.lower() on the letters that matter to float()
Lower(c) ==
    CASE c = "I" -> "i" [] c = "N" -> "n" [] c = "F" -> "f" [] c = "A" -> "a"
      [] c = "T" -> "t" [] c = "Y" -> "y" [] c = "E" -> "e" [] OTHER -> c
LowerText(s) == [i \in 1 .. Len(s) |-> Lower(s[i])]

----------------------------------------------------------------------------
(* float(text): the grammar of Python's float constructor                  *)

\* digitpart ::= digit (["_"] digit)*
IsDigitPart(s) ==
    /\ Len(s) > 0
    /\ s[1] \in Digits
    /\ s[Len(s)] \in Digits
    /\ \A i \in 1 .. Len(s) : s[i] \in Digits \cup {"_"}
    /\ \A i \in 1 .. (Len(s) - 1) : ~(s[i] = "_" /\ s[i + 1] = "_")

\* number ::= [digitpart] "." digitpart | digitpart ["."]
IsNumber(s) ==
    LET dot == FirstOf(s, {"."})
        left == SubSeq(s, 1, dot - 1)
        right == SubSeq(s, dot + 1, Len(s))
    IN  IF dot = 0 THEN IsDigitPart(s)
        ELSE \/ IsDigitPart(right) /\ (left = <<>> \/ IsDigitPart(left))
             \/ right = <<>> /\ IsDigitPart(left)

\* exponent ::= ("e" | "E") [sign] digitpart, given without its first letter
IsExponentTail(s) ==
    IF Len(s) > 0 /\ s[1] \in {"+", "-"} THEN IsDigitPart(Tail(s)) ELSE IsDigitPart(s)

\* floatnumber ::= number [exponent]
IsFloatNumber(s) ==
    LET e == FirstOf(s, {"e", "E"})
    IN  IF e = 0 THEN IsNumber(s)
        ELSE IsNumber(SubSeq(s, 1, e - 1)) /\ IsExponentTail(SubSeq(s, e + 1, Len(s)))

IsInfinity(s) ==
    LowerText(s) \in {<<"i", "n", "f">>, <<"i", "n", "f", "i", "n", "i", "t", "y">>}
IsNan(s) == LowerText(s) = <<"n", "a", "n">>

\* the text with surrounding whitespace and one optional sign removed
Unsigned(text) ==
    LET t == Strip(text)
    IN  IF Len(t) > 0 /\ t[1] \in {"+", "-"} THEN Tail(t) ELSE t

\* does float(text) return (TRUE) or raise ValueError (FALSE)
IsFloatText(text) ==
    LET u == Unsigned(text)
    IN  IsFloatNumber(u) \/ IsInfinity(u) \/ IsNan(u)

\* The value float(text) returns, as far as the model needs it: its text,
\* whether it is NaN, and whether it is below zero (a minus sign on a
\* mantissa with a non-zero digit, or minus infinity; -0.0 is not below 0.0).
FloatValue(text) ==
    LET t == Strip(text)
        u == Unsigned(text)
        e == FirstOf(u, {"e", "E"})
        mantissa == IF e = 0 THEN u ELSE SubSeq(u, 1, e - 1)
        nonzero == IsInfinity(u) \/ \E i \in 1 .. Len(mantissa) : mantissa[i] \in Digits \ {"0"}
    IN  [text |-> t,
         nan |-> IsNan(u),
         negative |-> ~IsNan(u) /\ Len(t) > 0 /\ t[1] = "-" /\ nonzero]

----------------------------------------------------------------------------
(* Outcomes of a call                                                      *)

None == [some |-> FALSE]
Some(v) == [some |-> TRUE, val |-> v]

Return(v) == [kind |-> "return", val |-> v]
Raise(e) == [kind |-> "raise", exc |-> e]
Returned(r) == r.kind = "return"
Raised(r, e) == r.kind = "raise" /\ r.exc = e

----------------------------------------------------------------------------
(* models.py: DeviceStatus                                                 *)

\* @validator("outlets"): all five outlets are present, and no other key
validate_outlets(v) == DOMAIN v = 1 .. (6 - 1)

\* Field(ge=0.0) on total_current_amps; NaN >= 0.0 is false
current_ge_zero(current) == ~current.nan /\ ~current.negative

\* DeviceStatus(...): the frozen value, or pydantic's ValidationError
DeviceStatus(outlets, total_current_amps, temperature, raw_response) ==
    IF validate_outlets(outlets) /\ current_ge_zero(total_current_amps)
    THEN Return([outlets |-> outlets,
                 total_current_amps |-> total_current_amps,
                 temperature |-> temperature,
                 raw_response |-> raw_response])
    ELSE Raise("ValidationError")

----------------------------------------------------------------------------
(* client.py: _parse_status_response                                       *)

\* A plausible slip: any "$A" code taken for the success code.
IsSuccessFieldAnyCode(field) == StartsWith(field, <<"$", "A">>)

\* parts[0].startswith(RESPONSE_SUCCESS)
IsSuccessField(field) == StartsWith(field, RESPONSE_SUCCESS)

\* A plausible slip: only too-short outlet strings rejected.
OutletBitsLengthAtLeast(outlets_str) == Len(outlets_str) >= NUM_OUTLETS

\* len(outlets_str) == NUM_OUTLETS
OutletBitsLengthOk(outlets_str) == Len(outlets_str) = NUM_OUTLETS

\* A plausible slip: unreadable current defaulted to 0.0 instead of failing.
ParseCurrentDefaultZero(text) ==
    IF IsFloatText(text) THEN Return(FloatValue(text)) ELSE Return(FloatValue(<<"0">>))

\* try: float(parts[2]) except ValueError: raise ParseError
ParseCurrent(text) ==
    IF IsFloatText(text) THEN Return(FloatValue(text)) ELSE Raise("ParseError")

\* A plausible slip: the "XX" sentinel turned into an absent value.
ParseTemperatureDropSentinel(parts) ==
    IF Len(parts) > 3 /\ parts[4] # <<"X", "X">> THEN Some(parts[4]) ELSE None

\* parts[3] if len(parts) > 3 else None
ParseTemperature(parts) == IF Len(parts) > 3 THEN Some(parts[4]) ELSE None

\* The outlets dict built by the loop over OUTLET_RANGE; an index outside the
\* outlet string raises IndexError, which the outer handler turns into ParseError.
ParseOutlets(outlets_str) ==
    IF \E o \in OUTLET_RANGE : ~IndexInRange(outlets_str, get_status_position(o))
    THEN Raise("ParseError")
    ELSE Return([o \in OUTLET_RANGE |->
                    PyIndex(outlets_str, get_status_position(o)) = "1"])

parse_status_response(response) ==
    LET parts == Split(response, ",")
    IN  IF Len(parts) < 3 THEN Raise("ParseError")
        ELSE IF ~IsSuccessField(parts[1]) THEN Raise("ParseError")
        ELSE IF ~OutletBitsLengthOk(parts[2]) THEN Raise("ParseError")
        ELSE LET outlets == ParseOutlets(parts[2])
                 current == ParseCurrent(parts[3])
             IN  IF ~Returned(outlets) THEN outlets
                 ELSE IF ~Returned(current) THEN current
                 ELSE DeviceStatus(outlets.val, current.val,
                                   ParseTemperature(parts), response)

----------------------------------------------------------------------------
(* Regular-expression searches of client.py, computed as re.search does:   *)
(* the leftmost position where the pattern matches, greedy repetitions.    *)

VersionChars == Digits \cup {"."}
HexChars == Digits \cup {"A", "B", "C", "D", "E", "F", "a", "b", "c", "d", "e", "f"}

\* does the literal lit stand at position i of s
HasAt(s, i, lit) ==
    /\ i >= 1
    /\ i + Len(lit) - 1 <= Len(s)
    /\ SubSeq(s, i, i + Len(lit) - 1) = lit

\* last position of the longest run of characters of cs that starts at i (i - 1: empty run)
RunEnd(s, i, cs) ==
    CHOOSE j \in (i - 1) .. Len(s) :
        /\ \A k \in i .. j : s[k] \in cs
        /\ j = Len(s) \/ s[j + 1] \notin cs

\* the leftmost of the positions where a pattern matches, as Some(position), or None
Leftmost(matches) ==
    IF matches = {} THEN None
    ELSE Some(CHOOSE i \in matches : \A j \in matches : i <= j)

\* marker\s*([0-9.]+) matched at position i: the span of group 1
VersionSpan(s, i, marker) ==
    LET ws == RunEnd(s, i + Len(marker), Whitespace)
    IN  <<ws + 1, RunEnd(s, ws + 1, VersionChars)>>
VersionAt(s, i, marker) ==
    /\ HasAt(s, i, marker)
    /\ VersionSpan(s, i, marker)[2] >= VersionSpan(s, i, marker)[1]

\* re.search(marker + r"\s*([0-9.]+)", s): group(1), or None without a match
SearchVersion(s, marker) ==
    LET m == Leftmost({ i \in 1 .. Len(s) : VersionAt(s, i, marker) })
    IN  IF m.some
        THEN Some(SubSeq(s, VersionSpan(s, m.val, marker)[1], VersionSpan(s, m.val, marker)[2]))
        ELSE None

\* BL[0-9.]+\s+(.+) matched at position i: where group 1 starts, 0 without a
\* match.  The version run is followed by at least one whitespace character;
\* the group starts at the last position after one that is not a line feed.
TrailingStart(s, i) ==
    LET v == RunEnd(s, i + 2, VersionChars)
        w == RunEnd(s, v + 1, Whitespace)
        starts == { q \in (v + 2) .. (w + 1) : q <= Len(s) /\ s[q] # "\n" }
    IN  IF HasAt(s, i, <<"B", "L">>) /\ v >= i + 2 /\ w >= v + 1 /\ starts # {}
        THEN CHOOSE q \in starts : \A r \in starts : r <= q
        ELSE 0

\* re.search(r"BL[0-9.]+\s+(.+)", s): group(1), which ends before a line feed
SearchTrailing(s) ==
    LET m == Leftmost({ i \in 1 .. Len(s) : TrailingStart(s, i) # 0 })
        AnyButLineFeed == { s[k] : k \in 1 .. Len(s) } \ {"\n"}
    IN  IF m.some
        THEN Some(SubSeq(s, TrailingStart(s, m.val),
                         RunEnd(s, TrailingStart(s, m.val), AnyButLineFeed)))
        ELSE None

\* ([0-9A-Fa-f]{2}[:-]){5}([0-9A-Fa-f]{2}) at position i: 17 characters
MacAt(s, i) ==
    /\ i + 16 <= Len(s)
    /\ \A k \in 0 .. 16 :
          IF k % 3 = 2 THEN s[i + k] \in {":", "-"} ELSE s[i + k] \in HexChars

\* re.search of the MAC pattern: group(0), or None
SearchMac(html) ==
    LET m == Leftmost({ i \in 1 .. Len(html) : MacAt(html, i) })
    IN  IF m.some THEN Some(SubSeq(html, m.val, m.val + 16)) ELSE None

----------------------------------------------------------------------------
(* models.py: DeviceInfo; client.py: _parse_device_info_response           *)

CMD_GET_INFO == <<"$", "A", "8">>

\* DeviceInfo(...): every field is a str or an Optional[str], so nothing is rejected
DeviceInfo(model, hardware_version, firmware_version, bootloader_version, mac_address, raw_response) ==
    [model |-> model,
     hardware_version |-> hardware_version,
     firmware_version |-> firmware_version,
     bootloader_version |-> bootloader_version,
     mac_address |-> mac_address,
     raw_response |-> raw_response]

\* A plausible slip: the prefix tested without its comma.
IsInfoSuccessNoComma(response) == StartsWith(response, RESPONSE_SUCCESS)

\* response.startswith(RESPONSE_SUCCESS + ",")
IsInfoSuccess(response) == StartsWith(response, RESPONSE_SUCCESS \o <<",">>)

\* re.search(r"HW\s*([0-9.]+)", details)
HardwareVersion(details) == SearchVersion(details, <<"H", "W">>)

\* re.search(r"BL\s*([0-9.]+)", details)
BootloaderVersion(details) == SearchVersion(details, <<"B", "L">>)

\* re.search(r"BL[0-9.]+\s+(.+)", details), group(1).strip()
FirmwareVersion(details) ==
    LET m == SearchTrailing(details)
    IN  IF m.some THEN Some(Strip(m.val)) ELSE None

parse_device_info_response(response) ==
    IF ~IsInfoSuccess(response) THEN Raise("ParseError")
    ELSE LET data == SubSeq(response, 4 + 1, Len(response))
             parts == Split(data, ",")
             model == Strip(parts[1])
         IN  IF Len(parts) >= 2
             THEN LET details == Strip(parts[2])
                  IN  Return(DeviceInfo(model, HardwareVersion(details),
                                        FirmwareVersion(details),
                                        BootloaderVersion(details), None, response))
             ELSE Return(DeviceInfo(model, None, None, None, None, response))

----------------------------------------------------------------------------
(* client.py: _send_command                                                *)

HTTP_OK == 200
HTTP_UNAUTHORIZED == 401

\* What the transport answers to one GET: an HTTP status with a body, or an
\* exception raised by the session (connection refused, connection dropped,
\* the session's total timeout expiring).
HttpAnswer(status, body) == [kind |-> "http", status |-> status, body |-> body]
TransportError(exc) == [kind |-> "exc", exc |-> exc]

\* except aiohttp.ClientConnectorError / except aiohttp.ClientError: the
\* exception classes these two handlers catch.  The TimeoutError raised when
\* ClientTimeout(total=...) expires is not an aiohttp.ClientError.
IsClientError(exc) == exc \in {"ClientConnectorError", "ServerDisconnectedError"}

CommandError(command, response) ==
    [kind |-> "raise", exc |-> "CommandError", command |-> command, response |-> response]

\* A plausible slip: the body inspected before the HTTP status.
send_command_body_first(command, answer) ==
    IF answer.kind = "exc"
    THEN IF IsClientError(answer.exc) THEN Raise("ConnectionError") ELSE Raise(answer.exc)
    ELSE IF StartsWith(Strip(answer.body), RESPONSE_FAILED)
         THEN CommandError(command, Strip(answer.body))
    ELSE IF answer.status = HTTP_UNAUTHORIZED THEN Raise("AuthenticationError")
    ELSE IF answer.status # HTTP_OK THEN Raise("ConnectionError")
    ELSE Return(Strip(answer.body))

\* The outcome of _send_command once the session exists.
send_command(command, answer) ==
    IF answer.kind = "exc"
    THEN IF IsClientError(answer.exc) THEN Raise("ConnectionError") ELSE Raise(answer.exc)
    ELSE IF answer.status = HTTP_UNAUTHORIZED THEN Raise("AuthenticationError")
    ELSE IF answer.status # HTTP_OK THEN Raise("ConnectionError")
    ELSE LET response == Strip(answer.body)
         IN  IF StartsWith(response, RESPONSE_FAILED)
             THEN CommandError(command, response)
             ELSE Return(response)

----------------------------------------------------------------------------
(* client.py: the public methods, as functions of the device's answer.     *)
(* Each yields the commands it sent, the text it handed to the parser (if  *)
(* any) and its outcome.                                                   *)

DigitChar(d) ==
    CASE d = 0 -> "0" [] d = 1 -> "1" [] d = 2 -> "2" [] d = 3 -> "3" [] d = 4 -> "4"
      [] d = 5 -> "5" [] d = 6 -> "6" [] d = 7 -> "7" [] d = 8 -> "8" [] d = 9 -> "9"

RECURSIVE NatStr(_)
NatStr(n) == IF n < 10 THEN <<DigitChar(n)>> ELSE NatStr(n \div 10) \o <<DigitChar(n % 10)>>
\* an int formatted by an f-string
IntStr(n) == IF n < 0 THEN <<"-">> \o NatStr(0 - n) ELSE NatStr(n)

Outcome(sent, parsed, result) == [sent |-> sent, parsed |-> parsed, result |-> result]

\* A plausible slip: 0 let through by the range check.
IsValidOutletFromZero(outlet_number) == outlet_number \in 0 .. NUM_OUTLETS

\* outlet_number in OUTLET_RANGE
IsValidOutlet(outlet_number) == outlet_number \in OUTLET_RANGE

get_status(answer) ==
    LET response == send_command(CMD_GET_STATUS, answer)
    IN  IF Returned(response)
        THEN Outcome(<<CMD_GET_STATUS>>, Some(response.val),
                     parse_status_response(response.val))
        ELSE Outcome(<<CMD_GET_STATUS>>, None, response)

get_outlet_state(outlet_number, answer) ==
    IF ~IsValidOutlet(outlet_number)
    THEN Outcome(<<>>, None, Raise("InvalidOutletError"))
    ELSE LET status == get_status(answer)
         IN  IF Returned(status.result)
             THEN [status EXCEPT !.result = Return(status.result.val.outlets[outlet_number])]
             ELSE status

\* the GET of http://host:port/ carries no command
PAGE_FETCH == <<>>

\* A plausible slip: the page is searched whatever its status.
WithMacAddressAnyStatus(device_info, page_answer) ==
    IF page_answer.kind = "http" /\ SearchMac(page_answer.body).some
    THEN DeviceInfo(device_info.model, device_info.hardware_version,
                    device_info.firmware_version, device_info.bootloader_version,
                    Some(SearchMac(page_answer.body).val), device_info.raw_response)
    ELSE device_info

\* get_device_info, the part after the parse: the page fetch sits in a try whose
\* except Exception swallows every failure, and a MAC found in a 200 page is
\* copied into a new DeviceInfo
WithMacAddress(device_info, page_answer) ==
    IF page_answer.kind = "http" /\ page_answer.status = HTTP_OK
          /\ SearchMac(page_answer.body).some
    THEN DeviceInfo(device_info.model, device_info.hardware_version,
                    device_info.firmware_version, device_info.bootloader_version,
                    Some(SearchMac(page_answer.body).val), device_info.raw_response)
    ELSE device_info

\* A plausible slip: the page is fetched before the command's failure is surfaced.
get_device_info_fetch_first(answer, page_answer) ==
    LET response == send_command(CMD_GET_INFO, answer)
    IN  IF ~Returned(response)
        THEN Outcome(<<PAGE_FETCH, CMD_GET_INFO>>, None, response)
        ELSE LET device_info == parse_device_info_response(response.val)
             IN  IF ~Returned(device_info)
                 THEN Outcome(<<PAGE_FETCH, CMD_GET_INFO>>, Some(response.val), device_info)
                 ELSE Outcome(<<CMD_GET_INFO, PAGE_FETCH>>, Some(response.val),
                              Return(WithMacAddress(device_info.val, page_answer)))

get_device_info(answer, page_answer) ==
    LET response == send_command(CMD_GET_INFO, answer)
    IN  IF ~Returned(response)
        THEN Outcome(<<CMD_GET_INFO>>, None, response)
        ELSE LET device_info == parse_device_info_response(response.val)
             IN  IF ~Returned(device_info)
                 THEN Outcome(<<CMD_GET_INFO>>, Some(response.val), device_info)
                 ELSE Outcome(<<CMD_GET_INFO, PAGE_FETCH>>, Some(response.val),
                              Return(WithMacAddress(device_info.val, page_answer)))

\* A plausible slip: the historical comma-separated variant of the command.
SetOutletCommandComma(outlet_number, value) ==
    CMD_SET_OUTLET \o <<",">> \o IntStr(outlet_number) \o <<",">> \o IntStr(value)

\* f"{CMD_SET_OUTLET} {outlet_number} {value}"
SetOutletCommand(outlet_number, value) ==
    CMD_SET_OUTLET \o <<" ">> \o IntStr(outlet_number) \o <<" ">> \o IntStr(value)

\* f"{CMD_TOGGLE_OUTLET}={rly_index}"
ToggleCommand(outlet_number) ==
    CMD_TOGGLE_OUTLET \o <<"=">> \o IntStr(get_rly_index(outlet_number))

\* A plausible slip: a command that did not raise is reported as succeeded.
CommandResultNotRaised(command, answer) ==
    LET response == send_command(command, answer)
    IN  IF Returned(response)
        THEN Outcome(<<command>>, None, Return(TRUE))
        ELSE Outcome(<<command>>, None, response)

\* response = await self._send_command(command); return response.startswith(RESPONSE_SUCCESS)
CommandResult(command, answer) ==
    LET response == send_command(command, answer)
    IN  IF Returned(response)
        THEN Outcome(<<command>>, None, Return(StartsWith(response.val, RESPONSE_SUCCESS)))
        ELSE Outcome(<<command>>, None, response)

set_outlet(outlet_number, state, answer) ==
    IF ~IsValidOutlet(outlet_number)
    THEN Outcome(<<>>, None, Raise("InvalidOutletError"))
    ELSE CommandResult(SetOutletCommand(outlet_number, IF state THEN 1 ELSE 0), answer)

turn_on(outlet_number, answer) == set_outlet(outlet_number, TRUE, answer)
turn_off(outlet_number, answer) == set_outlet(outlet_number, FALSE, answer)

toggle_outlet(outlet_number, answer) ==
    IF ~IsValidOutlet(outlet_number)
    THEN Outcome(<<>>, None, Raise("InvalidOutletError"))
    ELSE CommandResult(ToggleCommand(outlet_number), answer)

----------------------------------------------------------------------------
(* Inputs: what the device and the network can answer.  A response text is *)
(* composed of up to MaxFields comma-joined fields; the parser receives    *)
(* the joined text and has to split it again.                              *)

FirstFields ==
    { RESPONSE_SUCCESS, RESPONSE_FAILED, <<"$", "A", "0", "X">>,
      <<"I", "N", "V", "A", "L", "I", "D">>, <<>> }

OutletFields ==
    [1 .. NUM_OUTLETS -> {"0", "1"}]
        \cup { <<"1", "0", "1", "0">>, <<"1", "0", "1", "0", "1", "0">>,
               <<"1", "x", "0", "2", "1">> }

CurrentFields ==
    { <<"2", ".", "5", "0">>, <<"0", ".", "0", "0">>, <<"a", "b", "c">>, <<>>,
      <<"-", "1", ".", "0", "0">>, <<"n", "a", "n">>, <<"1", "e", "3">>, <<".">> }

TemperatureFields == { <<"2", "5">>, <<"X", "X">>, <<>> }

FieldChoices(i) ==
    CASE i = 1 -> FirstFields
      [] i = 2 -> OutletFields
      [] i = 3 -> CurrentFields
      [] OTHER -> TemperatureFields

RECURSIVE FieldListsOf(_)
FieldListsOf(n) ==
    IF n = 0 THEN { <<>> }
    ELSE { Append(fl, f) : fl \in FieldListsOf(n - 1), f \in FieldChoices(n) }

FieldLists == UNION { FieldListsOf(n) : n \in 0 .. MaxFields }

ResponseTexts == { Join(fl, ",") : fl \in FieldLists }

\* A body as the device sends it: bare, or framed by a blank and a line end.
Bodies == ResponseTexts \cup { <<" ">> \o t \o <<"\r", "\n">> : t \in ResponseTexts }

\* the test-only builder of a well-formed status text with the outlets of on_set ON
BuildStatus(on_set, current, temperature) ==
    Join(<< RESPONSE_SUCCESS,
            [i \in 1 .. NUM_OUTLETS |-> IF (NUM_OUTLETS + 1 - i) \in on_set THEN "1" ELSE "0"],
            current, temperature >>, ",")

StatusFrames ==
    { BuildStatus(on_set, <<"2", ".", "5", "0">>, <<"2", "5">>) : on_set \in SUBSET OUTLET_RANGE }

CommandBodies ==
    { RESPONSE_SUCCESS, RESPONSE_FAILED, <<>>, <<"O", "K">>,
      <<" ">> \o RESPONSE_SUCCESS \o <<"\r", "\n">>,
      <<"\n">> \o RESPONSE_FAILED \o <<",", "E", "r", "r", "o", "r">>,
      RESPONSE_SUCCESS \o <<",", "O", "K">> }

ErrorStatuses == {401, 404, 500}
TransportErrors == {"ClientConnectorError", "ServerDisconnectedError", "TimeoutError"}

ErrorAnswers ==
    { HttpAnswer(st, b) : st \in ErrorStatuses, b \in {RESPONSE_SUCCESS, RESPONSE_FAILED} }
        \cup { TransportError(e) : e \in TransportErrors }

StatusAnswers ==
    { HttpAnswer(HTTP_OK, b) : b \in StatusFrames \cup CommandBodies } \cup ErrorAnswers
CommandAnswers == { HttpAnswer(HTTP_OK, b) : b \in CommandBodies } \cup ErrorAnswers

\* outlet numbers a caller may pass: the valid ones and some on either side
OutletArgs == (0 - 1) .. (NUM_OUTLETS + 1)

RawCommands == { CMD_GET_STATUS, <<"$", "A", "3", " ", "1", " ", "1">>, <<"r", "l", "y", "=", "0">> }

NoAnswer == [kind |-> "none"]

\* Device-info responses, composed as  prefix model [, HW-token BL-token trailing]
InfoPrefixes ==
    { <<"$", "A", "0", ",">>,
      <<"$", "A", "0">>,
      <<"$", "A", "F", ",">>,
      <<"I", "N", "V", "A", "L", "I", "D">>,
      <<>>,
      <<" ", "$", "A", "0", ",">> }
InfoModels ==
    { <<"N", "P", "0", "5", "0", "1", "D", "U">>,
      <<" ", "N", "P", " ">>,
      <<>>,
      <<"E", "r", "r", "o", "r">> }
HardwareTokens ==
    { <<"H", "W", "4", ".", "3">>,
      <<"H", "W", " ", "4", ".", "3">>,
      <<"H", "W">>,
      <<"h", "w", "4", ".", "3">>,
      <<>> }
BootloaderTokens ==
    { <<"B", "L", "1", ".", "6">>,
      <<"B", "L", " ", "1", ".", "6">>,
      <<"B", "L">>,
      <<"B", "L", "1", ".", "6", ".">>,
      <<>> }
TrailingTokens ==
    { <<"-", "7", ".", "7", "2", "-", "8", ".", "5">>,
      <<>>,
      <<"v", "1", ",", "b", "2">>,
      <<"x", "\n", "y">> }
TokenSeparators == { <<" ">>, <<>>, <<" ", " ">> }

InfoDetails ==
    { <<" ">> \o hw \o sep \o bl \o sep \o fw :
        hw \in HardwareTokens, bl \in BootloaderTokens, fw \in TrailingTokens,
        sep \in TokenSeparators }

InfoTexts ==
    { prefix \o model : prefix \in InfoPrefixes, model \in InfoModels }
        \cup { prefix \o model \o <<",">> \o details :
                 prefix \in InfoPrefixes, model \in InfoModels, details \in InfoDetails }

\* what the device answers to $A8 in the client's state machine
InfoBodies ==
    { <<"$", "A", "0", ",", "N", "P", "0", "5", "0", "1", "D", "U", ",", " ", "H", "W", "4", ".", "3", " ", "B", "L", "1", ".", "6", " ", "-", "7", ".", "7", "2", "-", "8", ".", "5">>,
      <<"$", "A", "0", ",", "N", "P", "0", "5", "0", "1", "D", "U">>,
      <<" ", "$", "A", "0", ",", "N", "P", "0", "5", "0", "1", "D", "U", ",", " ", "H", "W", "4", ".", "3", " ", "B", "L", "1", ".", "6", " ", "-", "7", ".", "7", "2", "-", "8", ".", "5", "\r", "\n">>,
      <<"I", "N", "V", "A", "L", "I", "D">>,
      <<"$", "A", "0">>,
      <<"$", "A", "F">> }
InfoAnswers == { HttpAnswer(HTTP_OK, b) : b \in InfoBodies } \cup ErrorAnswers

\* the web interface's page, with and without a MAC address in it
PageBodies ==
    { <<"<", "t", "d", ">", "0", "C", ":", "7", "3", ":", "E", "B", ":", "B", "0", ":", "9", "E", ":", "5", "C", "<", "/", "t", "d", ">">>,
      <<"<", "t", "d", ">", "0", "c", "-", "7", "3", "-", "e", "b", "-", "b", "0", "-", "9", "e", "-", "5", "c", " ", "0", "0", ":", "1", "1", ":", "2", "2", ":", "3", "3", ":", "4", "4", ":", "5", "5", "<", "/", "t", "d", ">">>,
      <<"<", "t", "d", ">", "0", "C", ":", "7", "3", ":", "E", "B", ":", "B", "0", ":", "9", "E", "<", "/", "t", "d", ">">>,
      <<>> }
PageAnswers ==
    { HttpAnswer(st, b) : st \in {HTTP_OK, HTTP_UNAUTHORIZED}, b \in PageBodies }
        \cup { TransportError(e) : e \in {"ClientConnectorError", "TimeoutError"} }

----------------------------------------------------------------------------
(* The client as a state machine                                           *)

CallRecord(op, outlet_number, state, answer, out) ==
    [op |-> op, outlet |-> outlet_number, state |-> state, answer |-> answer,
     parsed |-> out.parsed, result |-> out.result]

\* no turn_on_all / turn_off_all is running
BatchIdle == [pc |-> "idle"]

\* Credentials are given to the ClientSession the client creates (auth=self._auth);
\* self._session.get(url) passes none of its own, so a request carries what the
\* session it goes through carries by default.
request_auth == IF external_session THEN external_auth ELSE TRUE

\* one GET as it leaves the client
Request(command, page, sid, answer) ==
    [command |-> command, page |-> page, session |-> sid, auth |-> request_auth,
     answer |-> answer]

\* __init__: no session unless the caller supplied one (identity 1)
Init ==
    /\ external_session \in BOOLEAN
    /\ external_auth \in (IF external_session THEN BOOLEAN ELSE {FALSE})
    /\ session = IF external_session THEN 1 ELSE 0
    /\ nsessions = IF external_session THEN 1 ELSE 0
    /\ closed = {}
    /\ reqs = <<>>
    /\ last = CallRecord("init", 0, FALSE, NoAnswer, Outcome(<<>>, None, Return(None)))
    /\ input = <<>>
    /\ batch = BatchIdle
    /\ inflight = {}
    /\ cached_device_info = None
    /\ calls = <<>>
    /\ relays = <<>>

\* a session can still be created within the bound
CanEnsure == session # 0 \/ nsessions < MaxSessions

\* A plausible slip: a session is created whether or not one exists.
ensure_session_always_new == session' = nsessions + 1 /\ nsessions' = nsessions + 1

\* _ensure_session
ensure_session ==
    IF session = 0
    THEN session' = nsessions + 1 /\ nsessions' = nsessions + 1
    ELSE UNCHANGED <<session, nsessions>>

\* A plausible slip: a call that fails closes and drops the session it used.
CallClosingOnError(op, outlet_number, state, answer, out) ==
    LET used == IF session = 0 THEN nsessions + 1 ELSE session
    IN  /\ IF out.sent = <<>>
           THEN UNCHANGED <<session, nsessions, closed>>
           ELSE /\ CanEnsure
                /\ nsessions' = IF session = 0 THEN nsessions + 1 ELSE nsessions
                /\ IF Returned(out.result)
                   THEN session' = used /\ closed' = closed
                   ELSE session' = 0 /\ closed' = closed \cup {used}
        /\ reqs' = [i \in 1 .. Len(out.sent) |-> Request(out.sent[i], FALSE, used, answer)]
        /\ last' = CallRecord(op, outlet_number, state,
                              IF out.sent = <<>> THEN NoAnswer ELSE answer, out)
        /\ UNCHANGED <<external_session, input, relays, cached_device_info, calls, external_auth, batch, inflight>>

\* A call of a public method whose outcome on the device's answer is out: the
\* session is ensured only if a command is sent, and each command is one GET.
Call(op, outlet_number, state, answer, out) ==
    /\ IF out.sent = <<>>
       THEN UNCHANGED <<session, nsessions>>
       ELSE CanEnsure /\ ensure_session
    /\ reqs' = [i \in 1 .. Len(out.sent) |-> Request(out.sent[i], FALSE, session', answer)]
    /\ last' = CallRecord(op, outlet_number, state,
                          IF out.sent = <<>> THEN NoAnswer ELSE answer, out)
    /\ UNCHANGED <<external_session, closed, input, relays, cached_device_info, calls, external_auth, batch, inflight>>

GetStatus ==
    \E answer \in StatusAnswers :
        Call("get_status", 0, FALSE, answer, get_status(answer))

GetOutletState ==
    \E o \in OutletArgs, answer \in StatusAnswers :
        Call("get_outlet_state", o, FALSE, answer, get_outlet_state(o, answer))

SetOutlet ==
    \E o \in OutletArgs, st \in BOOLEAN, answer \in CommandAnswers :
        Call("set_outlet", o, st, answer, set_outlet(o, st, answer))

TurnOn ==
    \E o \in OutletArgs, answer \in CommandAnswers :
        Call("turn_on", o, TRUE, answer, turn_on(o, answer))

TurnOff ==
    \E o \in OutletArgs, answer \in CommandAnswers :
        Call("turn_off", o, FALSE, answer, turn_off(o, answer))

ToggleOutlet ==
    \E o \in OutletArgs, answer \in CommandAnswers :
        Call("toggle_outlet", o, FALSE, answer, toggle_outlet(o, answer))

\* get_device_info on every pair of answers (the command's, the page's)
DeviceInfoOutcomes ==
    [answer \in InfoAnswers, page_answer \in PageAnswers |->
        get_device_info(answer, page_answer)]

\* get_device_info: the $A8 command, then (only once it has answered and been
\* parsed) the GET of the web page, through the same session
GetDeviceInfo ==
    \E answer \in InfoAnswers, page_answer \in PageAnswers :
        LET out == DeviceInfoOutcomes[answer, page_answer]
        IN  /\ CanEnsure
            /\ ensure_session
            /\ reqs' = [i \in 1 .. Len(out.sent) |->
                           Request(out.sent[i], out.sent[i] = PAGE_FETCH, session',
                                   IF out.sent[i] = PAGE_FETCH THEN page_answer ELSE answer)]
            /\ last' = CallRecord("get_device_info", 0, FALSE, answer, out)
            /\ UNCHANGED <<external_session, closed, input, relays, cached_device_info, calls, external_auth, batch, inflight>>

\* _send_command called directly, as the tests do
SendCommand ==
    \E command \in RawCommands, answer \in CommandAnswers :
        Call("send_command", 0, FALSE, answer,
             Outcome(<<command>>, None, send_command(command, answer)))

\* A plausible slip: the session is closed but the client keeps holding it.
CloseKeepingSession ==
    /\ IF session # 0 /\ ~external_session
       THEN closed' = closed \cup {session}
       ELSE UNCHANGED closed
    /\ reqs' = <<>>
    /\ last' = CallRecord("close", 0, FALSE, NoAnswer, Outcome(<<>>, None, Return(None)))
    /\ UNCHANGED <<session, external_session, nsessions, input, relays, cached_device_info, calls, external_auth, batch,
                   inflight>>

\* A plausible slip: close() closes and drops whatever session the client holds.
CloseAnySession ==
    /\ IF session # 0
       THEN closed' = closed \cup {session} /\ session' = 0
       ELSE UNCHANGED <<session, closed>>
    /\ reqs' = <<>>
    /\ last' = CallRecord("close", 0, FALSE, NoAnswer, Outcome(<<>>, None, Return(None)))
    /\ UNCHANGED <<external_session, nsessions, input, relays, cached_device_info, calls,
                   external_auth, batch, inflight>>

\* close(): the session is closed and dropped only if the client owns it
Close ==
    /\ IF session # 0 /\ ~external_session
       THEN closed' = closed \cup {session} /\ session' = 0
       ELSE UNCHANGED <<session, closed>>
    /\ reqs' = <<>>
    /\ last' = CallRecord("close", 0, FALSE, NoAnswer, Outcome(<<>>, None, Return(None)))
    /\ UNCHANGED <<external_session, nsessions, input, relays, cached_device_info, calls, external_auth, batch, inflight>>

\* __aenter__
AEnter ==
    /\ CanEnsure
    /\ ensure_session
    /\ reqs' = <<>>
    /\ last' = CallRecord("aenter", 0, FALSE, NoAnswer, Outcome(<<>>, None, Return(None)))
    /\ UNCHANGED <<external_session, closed, input, relays, cached_device_info, calls, external_auth, batch, inflight>>

\* How the body of an "async with" block can end: normally, with one of the
\* client's typed errors, or with an exception of the caller's own.
BlockOutcomes ==
    {Return(None)} \cup
    { Raise(e) : e \in {"AuthenticationError", "ConnectionError", "CommandError",
                         "InvalidOutletError", "ParseError", "KeyError"} }

\* A plausible slip: the session is closed only when the block ended normally.
AExitOnlyOnNormalExit ==
    \E body \in BlockOutcomes :
        /\ IF session # 0 /\ ~external_session /\ Returned(body)
           THEN closed' = closed \cup {session} /\ session' = 0
           ELSE UNCHANGED <<session, closed>>
        /\ reqs' = <<>>
        /\ last' = CallRecord("aexit", 0, FALSE, body, Outcome(<<>>, None, body))
        /\ UNCHANGED <<external_session, nsessions, input, relays, cached_device_info, calls,
                       external_auth, batch, inflight>>

\* __aexit__(exc_type, exc_val, exc_tb): awaits close() and returns None, so
\* the with statement ends as its body ended.  The record's answer field holds
\* the body's outcome, which is what __aexit__ is handed.
AExit ==
    \E body \in BlockOutcomes :
        /\ IF session # 0 /\ ~external_session
           THEN closed' = closed \cup {session} /\ session' = 0
           ELSE UNCHANGED <<session, closed>>
        /\ reqs' = <<>>
        /\ last' = CallRecord("aexit", 0, FALSE, body, Outcome(<<>>, None, body))
        /\ UNCHANGED <<external_session, nsessions, input, relays, cached_device_info, calls,
                       external_auth, batch, inflight>>

Next ==
    \/ GetStatus
    \/ GetOutletState
    \/ SetOutlet
    \/ TurnOn
    \/ TurnOff
    \/ ToggleOutlet
    \/ GetDeviceInfo
    \/ SendCommand
    \/ Close
    \/ AEnter
    \/ AExit

Spec == Init /\ [][Next]_vars

----------------------------------------------------------------------------
(* The status parser on its own: the response text is drawn at the start,  *)
(* then handed to _parse_status_response directly (as the tests do) or     *)
(* served by the device as the body of a 200 answer to get_status.         *)

InitParse ==
    /\ external_session = FALSE
    /\ external_auth = FALSE
    /\ batch = BatchIdle
    /\ inflight = {}
    /\ cached_device_info = None
    /\ calls = <<>>
    /\ relays = <<>>
    /\ session = 0
    /\ nsessions = 0
    /\ closed = {}
    /\ reqs = <<>>
    /\ last = CallRecord("init", 0, FALSE, NoAnswer, Outcome(<<>>, None, Return(None)))
    /\ input \in Bodies

ParseStatusResponse ==
    /\ last' = CallRecord("parse_status_response", 0, FALSE, NoAnswer,
                          Outcome(<<>>, Some(input), parse_status_response(input)))
    /\ reqs' = <<>>
    /\ UNCHANGED <<session, external_session, nsessions, closed, input, relays, cached_device_info, calls,
                   external_auth, batch, inflight>>

GetStatusOfInput ==
    Call("get_status", 0, FALSE, HttpAnswer(HTTP_OK, input),
         get_status(HttpAnswer(HTTP_OK, input)))

NextParse ==
    \/ ParseStatusResponse
    \/ GetStatusOfInput

SpecParse == InitParse /\ [][NextParse]_vars

----------------------------------------------------------------------------
(* The device-info parser on its own: the response text is drawn at the     *)
(* start and handed to _parse_device_info_response, as the tests do.        *)

InitInfo ==
    /\ external_session = FALSE
    /\ external_auth = FALSE
    /\ batch = BatchIdle
    /\ inflight = {}
    /\ cached_device_info = None
    /\ calls = <<>>
    /\ relays = <<>>
    /\ session = 0
    /\ nsessions = 0
    /\ closed = {}
    /\ reqs = <<>>
    /\ last = CallRecord("init", 0, FALSE, NoAnswer, Outcome(<<>>, None, Return(None)))
    /\ input \in InfoTexts

ParseDeviceInfoResponse ==
    /\ last' = CallRecord("parse_device_info_response", 0, FALSE, NoAnswer,
                          Outcome(<<>>, Some(input), parse_device_info_response(input)))
    /\ reqs' = <<>>
    /\ UNCHANGED <<session, external_session, nsessions, closed, input, relays, cached_device_info, calls,
                   external_auth, batch, inflight>>

NextInfo == ParseDeviceInfoResponse

SpecInfo == InitInfo /\ [][NextInfo]_vars

----------------------------------------------------------------------------
(* turn_on_all / turn_off_all, step by step: each pass of the loop calls    *)
(* turn_on / turn_off, which sends its command and awaits the answer.       *)

\* what the device answers to one set command of a batch
BatchAnswers ==
    { HttpAnswer(HTTP_OK, RESPONSE_SUCCESS), HttpAnswer(HTTP_OK, <<"O", "K">>),
      HttpAnswer(HTTP_OK, RESPONSE_FAILED), HttpAnswer(HTTP_UNAUTHORIZED, <<>>),
      TransportError("ClientConnectorError"), TransportError("TimeoutError") }

\* A plausible slip: only the library's own errors are caught.
IsNetCommanderError(exc) ==
    exc \in {"AuthenticationError", "ConnectionError", "CommandError",
             "InvalidOutletError", "ParseError"}

\* except Exception: the library's errors, pydantic's, asyncio.TimeoutError
IsException(exc) ==
    exc \in {"AuthenticationError", "ConnectionError", "CommandError",
             "InvalidOutletError", "ParseError", "ValidationError", "TimeoutError"}

\* A plausible slip: the commands are started without awaiting each other.
CanSendNextAlways == TRUE

\* the loop reaches its next pass only when the awaited call has completed
CanSendNext == inflight = {}

BatchOp(state) == IF state THEN "turn_on_all" ELSE "turn_off_all"

\* the call has not returned yet
Pending == [kind |-> "pending"]

\* results[outlet] = value
Put(results, outlet, value) ==
    [o \in DOMAIN results \cup {outlet} |-> IF o = outlet THEN value ELSE results[o]]

\* one pass of the loop once turn_on / turn_off has come back with result
Settled(b, outlet, result) ==
    IF Returned(result) THEN [b EXCEPT !.results = Put(@, outlet, result.val)]
    ELSE IF IsException(result.exc) THEN [b EXCEPT !.results = Put(@, outlet, FALSE)]
    ELSE [b EXCEPT !.raised = Some(result.exc)]

\* results = {} and the loop starts at the first outlet
BatchStart ==
    /\ batch.pc = "idle"
    /\ \E state \in BOOLEAN :
          /\ batch' = [pc |-> "loop", state |-> state, outlet |-> 1, results |-> <<>>,
                       raised |-> None]
          /\ last' = CallRecord(BatchOp(state), 0, state, NoAnswer,
                                Outcome(<<>>, None, Pending))
    /\ reqs' = <<>>
    /\ UNCHANGED <<session, external_session, nsessions, closed, input, relays, cached_device_info, calls, external_auth,
                   inflight>>

\* turn_on(outlet) / turn_off(outlet) up to the await of its request
BatchSend ==
    /\ batch.pc = "loop"
    /\ batch.outlet \in OUTLET_RANGE
    /\ ~batch.raised.some
    /\ CanSendNext
    /\ IF IsValidOutlet(batch.outlet)
       THEN /\ CanEnsure
            /\ ensure_session
            /\ reqs' = Append(reqs,
                   Request(SetOutletCommand(batch.outlet, IF batch.state THEN 1 ELSE 0),
                           FALSE, session', NoAnswer))
            /\ inflight' = inflight \cup {<<batch.outlet, Len(reqs) + 1>>}
            /\ batch' = [batch EXCEPT !.outlet = @ + 1]
       ELSE /\ batch' = [Settled(batch, batch.outlet, Raise("InvalidOutletError"))
                            EXCEPT !.outlet = @ + 1]
            /\ UNCHANGED <<session, nsessions, reqs, inflight>>
    /\ UNCHANGED <<external_session, closed, input, relays, cached_device_info, calls, external_auth, last>>

\* the awaited request completes: the device answers or the transport fails
BatchReceive ==
    /\ batch.pc = "loop"
    /\ \E f \in inflight, answer \in BatchAnswers :
          /\ inflight' = inflight \ {f}
          /\ reqs' = [reqs EXCEPT ![f[2]].answer = answer]
          /\ batch' = Settled(batch, f[1], set_outlet(f[1], batch.state, answer).result)
    /\ UNCHANGED <<session, external_session, nsessions, closed, input, relays, cached_device_info, calls, external_auth,
                   last>>

\* return results (or the error no handler caught)
BatchFinish ==
    /\ batch.pc = "loop"
    /\ inflight = {}
    /\ batch.outlet \notin OUTLET_RANGE \/ batch.raised.some
    /\ last' = CallRecord(BatchOp(batch.state), 0, batch.state, NoAnswer,
                          Outcome(<<>>, None,
                                  IF batch.raised.some THEN Raise(batch.raised.val)
                                  ELSE Return(batch.results)))
    /\ batch' = BatchIdle
    /\ UNCHANGED <<session, external_session, nsessions, closed, reqs, input, relays, cached_device_info, calls,
                   external_auth, inflight>>

NextBatch ==
    \/ BatchStart
    \/ BatchSend
    \/ BatchReceive
    \/ BatchFinish

SpecBatch == Init /\ [][NextBatch]_vars

----------------------------------------------------------------------------
(* coordinator.py: NetCommanderCoordinator.  Each method is one step; the   *)
(* client methods it calls are the ones above, on the device's answers.     *)

\* exceptions.py: the subclasses of NetCommanderError
NetCommanderErrors ==
    {"AuthenticationError", "ConnectionError", "CommandError", "InvalidOutletError",
     "ParseError"}

\* one method invoked by an integration call, with its outcome
ClientCall(op, outlet_number, result) ==
    [op |-> op, outlet |-> outlet_number, result |-> result]

\* the GETs of one client call, through the client's session
RequestsOf(out, answer, page_answer) ==
    [i \in 1 .. Len(out.sent) |->
        Request(out.sent[i], out.sent[i] = PAGE_FETCH, session',
                IF out.sent[i] = PAGE_FETCH THEN page_answer ELSE answer)]

\* A plausible slip: the handler is missing and the error goes to the caller.
ErrorPassedOn(result) == result

\* except NetCommanderError: return False
FalseIfNetCommanderError(result) ==
    IF ~Returned(result) /\ result.exc \in NetCommanderErrors THEN Return(FALSE) ELSE result

\* A plausible slip: every failure of the update is passed on as it is.
UpdateOutcomeUnwrapped(result) == result

\* except NetCommanderError as err: raise UpdateFailed(...) from err
UpdateOutcome(result) ==
    IF ~Returned(result) /\ result.exc \in NetCommanderErrors
    THEN Raise("UpdateFailed") ELSE result

CoordInfoAnswers ==
    { HttpAnswer(HTTP_OK, <<"$", "A", "0", ",", "N", "P", "0", "5", "0", "1", "D", "U", ",", " ", "H", "W", "4", ".", "3", " ", "B", "L", "1", ".", "6", " ", "-", "7", ".", "7", "2", "-", "8", ".", "5">>),
      HttpAnswer(HTTP_OK, <<"I", "N", "V", "A", "L", "I", "D">>),
      HttpAnswer(HTTP_UNAUTHORIZED, RESPONSE_SUCCESS),
      TransportError("ClientConnectorError"), TransportError("TimeoutError") }
CoordPageAnswers ==
    { HttpAnswer(HTTP_OK, <<"<", "t", "d", ">", "0", "C", ":", "7", "3", ":", "E", "B", ":", "B", "0", ":", "9", "E", ":", "5", "C", "<", "/", "t", "d", ">">>),
      TransportError("TimeoutError") }
CoordStatusAnswers ==
    { HttpAnswer(HTTP_OK, BuildStatus(OUTLET_RANGE, <<"2", ".", "5", "0">>, <<"2", "5">>)),
      HttpAnswer(HTTP_OK, <<"O", "K">>) } \cup ErrorAnswers

\* __init__: a client of its own, without a session, and no device info
InitCoord ==
    /\ external_session = FALSE
    /\ external_auth = FALSE
    /\ session = 0
    /\ nsessions = 0
    /\ closed = {}
    /\ reqs = <<>>
    /\ last = CallRecord("init", 0, FALSE, NoAnswer, Outcome(<<>>, None, Return(None)))
    /\ input = <<>>
    /\ batch = BatchIdle
    /\ inflight = {}
    /\ cached_device_info = None
    /\ calls = <<>>
    /\ relays = <<>>

\* _async_update_data
CoordUpdate ==
    \E answer \in CoordInfoAnswers, page_answer \in CoordPageAnswers,
       status_answer \in CoordStatusAnswers :
        LET fetch == cached_device_info = None
            info == DeviceInfoOutcomes[answer, page_answer]
            status == get_status(status_answer)
            info_failed == fetch /\ ~Returned(info.result)
        IN  /\ CanEnsure
            /\ ensure_session
            /\ cached_device_info' =
                   IF fetch /\ ~info_failed THEN Some(info.result.val)
                   ELSE cached_device_info
            /\ calls' =
                   (IF fetch THEN <<ClientCall("get_device_info", 0, info.result)>> ELSE <<>>)
                   \o (IF info_failed THEN <<>>
                       ELSE <<ClientCall("get_status", 0, status.result)>>)
            /\ reqs' =
                   (IF fetch THEN RequestsOf(info, answer, page_answer) ELSE <<>>)
                   \o (IF info_failed THEN <<>>
                       ELSE RequestsOf(status, status_answer, status_answer))
            /\ last' = CallRecord("_async_update_data", 0, FALSE, NoAnswer,
                   Outcome(<<>>, None,
                           UpdateOutcome(IF info_failed THEN info.result ELSE status.result)))
            /\ UNCHANGED <<external_session, closed, input, relays, external_auth, batch, inflight>>

\* async_turn_on / async_turn_off: the command, then async_request_refresh
CoordSwitch(state) ==
    \E o \in OutletArgs, answer \in BatchAnswers :
        LET out == set_outlet(o, state, answer)
            name == IF state THEN "turn_on" ELSE "turn_off"
        IN  /\ IF out.sent = <<>>
               THEN UNCHANGED <<session, nsessions>>
               ELSE CanEnsure /\ ensure_session
            /\ calls' = <<ClientCall(name, o, out.result)>>
                   \o (IF Returned(out.result)
                       THEN <<ClientCall("async_request_refresh", 0, Return(None))>>
                       ELSE <<>>)
            /\ reqs' = RequestsOf(out, answer, answer)
            /\ last' = CallRecord("async_" \o name, o, state, NoAnswer,
                                  Outcome(<<>>, None, FalseIfNetCommanderError(out.result)))
            /\ UNCHANGED <<external_session, closed, input, relays, external_auth, batch, inflight,
                           cached_device_info>>

CoordTurnOn == CoordSwitch(TRUE)
CoordTurnOff == CoordSwitch(FALSE)

\* A plausible slip: turn_on is sent whatever became of turn_off.
RebootContinuesAlways(off_result) == TRUE

\* an exception of turn_off leaves the try block before the sleep and turn_on
RebootContinues(off_result) == Returned(off_result)

\* async_reboot_outlet: turn_off, asyncio.sleep(5), turn_on, async_request_refresh
CoordReboot ==
    \E o \in OutletArgs, off_answer \in BatchAnswers, on_answer \in BatchAnswers :
        LET off == turn_off(o, off_answer)
            on == turn_on(o, on_answer)
            result == IF RebootContinues(off.result) THEN on.result ELSE off.result
        IN  /\ IF off.sent = <<>>
               THEN UNCHANGED <<session, nsessions>>
               ELSE CanEnsure /\ ensure_session
            /\ calls' = <<ClientCall("turn_off", o, off.result)>>
                   \o (IF RebootContinues(off.result)
                       THEN <<ClientCall("asyncio.sleep", 0, Return(None)),
                              ClientCall("turn_on", o, on.result)>>
                       ELSE <<>>)
                   \o (IF Returned(result)
                       THEN <<ClientCall("async_request_refresh", 0, Return(None))>>
                       ELSE <<>>)
            /\ reqs' = RequestsOf(off, off_answer, off_answer)
                   \o (IF RebootContinues(off.result) THEN RequestsOf(on, on_answer, on_answer)
                       ELSE <<>>)
            /\ last' = CallRecord("async_reboot_outlet", o, FALSE, NoAnswer,
                                  Outcome(<<>>, None, FalseIfNetCommanderError(result)))
            /\ UNCHANGED <<external_session, closed, input, relays, external_auth, batch, inflight,
                           cached_device_info>>

\* async_shutdown: await self.client.close()
CoordShutdown ==
    /\ IF session # 0 /\ ~external_session
       THEN closed' = closed \cup {session} /\ session' = 0
       ELSE UNCHANGED <<session, closed>>
    /\ calls' = <<ClientCall("close", 0, Return(None))>>
    /\ reqs' = <<>>
    /\ last' = CallRecord("async_shutdown", 0, FALSE, NoAnswer,
                          Outcome(<<>>, None, Return(None)))
    /\ UNCHANGED <<external_session, nsessions, input, relays, external_auth, batch, inflight,
                   cached_device_info>>

NextCoord ==
    \/ CoordUpdate
    \/ CoordTurnOn
    \/ CoordTurnOff
    \/ CoordReboot
    \/ CoordShutdown

SpecCoord == InitCoord /\ [][NextCoord]_vars

----------------------------------------------------------------------------
(* config_flow.py: validate_input, on a client it constructs itself.  The   *)
(* host the user entered is drawn at the start.                             *)

InitFlow ==
    /\ external_session = FALSE
    /\ external_auth = FALSE
    /\ session = 0
    /\ nsessions = 0
    /\ closed = {}
    /\ reqs = <<>>
    /\ last = CallRecord("init", 0, FALSE, NoAnswer, Outcome(<<>>, None, Return(None)))
    /\ input \in { <<"1", "9", "2", ".", "1", "6", "8", ".", "1", ".", "1", "0", "0">>, <<"p", "d", "u", ".", "l", "o", "c", "a", "l">> }
    /\ batch = BatchIdle
    /\ inflight = {}
    /\ cached_device_info = None
    /\ calls = <<>>
    /\ relays = <<>>

\* A plausible slip: the host is always taken as the unique id.
FlowOutcomeHostOnly(result, host) ==
    IF Returned(result)
    THEN Return([title |-> <<"N", "e", "t", "C", "o", "m", "m", "a", "n", "d", "e", "r", " ">> \o result.val.model, unique_id |-> host,
                 model |-> result.val.model])
    ELSE IF result.exc = "AuthenticationError" THEN Raise("InvalidAuth")
    ELSE IF result.exc \in {"ConnectionError", "TimeoutError"} THEN Raise("CannotConnect")
    ELSE result

\* the return value and the except clauses of validate_input
FlowOutcome(result, host) ==
    IF Returned(result)
    THEN Return([title |-> <<"N", "e", "t", "C", "o", "m", "m", "a", "n", "d", "e", "r", " ">> \o result.val.model,
                 unique_id |-> IF result.val.mac_address.some
                               THEN result.val.mac_address.val ELSE host,
                 model |-> result.val.model])
    ELSE IF result.exc = "AuthenticationError" THEN Raise("InvalidAuth")
    ELSE IF result.exc \in {"ConnectionError", "TimeoutError"} THEN Raise("CannotConnect")
    ELSE result

\* validate_input: a new client, get_device_info (whose first request creates
\* the client's session), and close() in the finally clause
ValidateInput ==
    \E answer \in InfoAnswers, page_answer \in PageAnswers :
        LET out == DeviceInfoOutcomes[answer, page_answer]
            created == nsessions + 1
        IN  /\ session = 0
            /\ nsessions < MaxSessions
            /\ nsessions' = created
            /\ closed' = closed \cup {created}
            /\ session' = 0
            /\ reqs' = [i \in 1 .. Len(out.sent) |->
                           Request(out.sent[i], out.sent[i] = PAGE_FETCH, created,
                                   IF out.sent[i] = PAGE_FETCH THEN page_answer ELSE answer)]
            /\ calls' = <<ClientCall("get_device_info", 0, out.result),
                          ClientCall("close", 0, Return(None))>>
            /\ last' = CallRecord("validate_input", 0, FALSE, answer,
                                  Outcome(<<>>, None, FlowOutcome(out.result, input)))
            /\ UNCHANGED <<external_session, input, relays, external_auth, batch, inflight,
                           cached_device_info>>

NextFlow == ValidateInput

SpecFlow == InitFlow /\ [][NextFlow]_vars

----------------------------------------------------------------------------
(* custom_components/netcommander/api.py: the legacy NetCommanderAPI, used  *)
(* by switch.py with the outlet numbers 1 .. 5, and the device it talks to. *)

\* What the device answers to $A5: its relays (whole, framed by a blank and a
\* line end, or cut off after three of them), a failure code, or no answer
\* in time.
LegacyStatusAnswers ==
    { HttpAnswer(HTTP_OK, RESPONSE_SUCCESS \o <<",">> \o relays \o <<",", "2", ".", "5", "0", ",", "2", "5">>),
      HttpAnswer(HTTP_OK, <<" ">> \o RESPONSE_SUCCESS \o <<",">> \o relays \o <<",", "0", ".", "0", "0", "\r", "\n">>),
      HttpAnswer(HTTP_OK, RESPONSE_SUCCESS \o <<",">> \o SubSeq(relays, 1, 3)),
      HttpAnswer(HTTP_OK, RESPONSE_FAILED),
      TransportError("TimeoutError") }

\* What the device answers to rly=<index>
LegacyToggleAnswers ==
    { HttpAnswer(HTTP_OK, RESPONSE_SUCCESS \o <<"\r", "\n">>),
      HttpAnswer(HTTP_OK, RESPONSE_FAILED),
      HttpAnswer(HTTP_UNAUTHORIZED, <<>>),
      TransportError("TimeoutError") }

\* The device toggling relay rly_index: the relay of the outlet n with
\* get_rly_index(n) = rly_index, shown at get_status_position(n).
RelaysAfterToggle(rly_index) ==
    [p \in 1 .. Len(relays) |->
        IF \E n \in OUTLET_RANGE :
               get_rly_index(n) = rly_index /\ get_status_position(n) = p - 1
        THEN (IF relays[p] = "1" THEN "0" ELSE "1")
        ELSE relays[p]]

\* async_get_status: the body of a 200 answer, None for anything else
async_get_status(answer) ==
    IF answer.kind = "http" /\ answer.status = HTTP_OK THEN Some(answer.body) ELSE None

\* A plausible slip: the relay addressed with the library's numbering.
rly_index_as_library(outlet) == get_rly_index(outlet)

\* rly_index = 5 - outlet
rly_index(outlet) == 5 - outlet

\* async_set_outlet: read the status, toggle only if the bit read differs
async_set_outlet(outlet, state, status_answer, toggle_answer) ==
    LET status_position == outlet - 1
        current_status == async_get_status(status_answer)
        parts == Split(Strip(current_status.val), ",")
        current_outlets == parts[2]
        current_state == PyIndex(current_outlets, status_position) = "1"
        text == toggle_answer.body
    IN  IF ~current_status.some THEN Outcome(<<CMD_GET_STATUS>>, None, Return(FALSE))
        ELSE IF Len(parts) < 2 THEN Outcome(<<CMD_GET_STATUS>>, None, Return(FALSE))
        ELSE IF status_position >= Len(current_outlets)
        THEN Outcome(<<CMD_GET_STATUS>>, None, Return(FALSE))
        ELSE IF current_state = state
        THEN Outcome(<<CMD_GET_STATUS>>, Some(current_state), Return(TRUE))
        ELSE Outcome(<<CMD_GET_STATUS, CMD_TOGGLE_OUTLET \o <<"=">> \o IntStr(rly_index(outlet))>>,
                     Some(current_state),
                     IF toggle_answer.kind = "http" /\ toggle_answer.status = HTTP_OK
                     THEN Return(\E i \in 1 .. Len(text) : HasAt(text, i, RESPONSE_SUCCESS))
                     ELSE Return(FALSE))

\* __init__ of the legacy API, and the relays of the device it is pointed at
InitLegacy ==
    /\ external_session = FALSE
    /\ external_auth = FALSE
    /\ session = 0
    /\ nsessions = 0
    /\ closed = {}
    /\ reqs = <<>>
    /\ last = CallRecord("init", 0, FALSE, NoAnswer, Outcome(<<>>, None, Return(None)))
    /\ input = <<>>
    /\ batch = BatchIdle
    /\ inflight = {}
    /\ cached_device_info = None
    /\ calls = <<>>
    /\ relays \in [1 .. NUM_OUTLETS -> {"0", "1"}]

\* One call of async_set_outlet by switch.py, nobody else touching the device
\* meanwhile.  The device toggles the relay when it answers the toggle with the
\* success code and leaves it when it answers otherwise; when the answer is
\* lost it may have done either.
LegacySetOutlet ==
    \E outlet \in OUTLET_RANGE, state \in BOOLEAN,
       status_answer \in LegacyStatusAnswers, toggle_answer \in LegacyToggleAnswers :
        LET out == async_set_outlet(outlet, state, status_answer, toggle_answer)
            toggled == IF toggle_answer.kind = "exc" THEN BOOLEAN
                       ELSE {toggle_answer.status = HTTP_OK
                                /\ StartsWith(Strip(toggle_answer.body), RESPONSE_SUCCESS)}
        IN  /\ CanEnsure
            /\ ensure_session
            /\ reqs' = [i \in 1 .. Len(out.sent) |->
                           Request(out.sent[i], FALSE, session',
                                   IF i = 1 THEN status_answer ELSE toggle_answer)]
            /\ \E applied \in toggled :
                   relays' = IF Len(out.sent) = 2 /\ applied
                             THEN RelaysAfterToggle(rly_index(outlet))
                             ELSE relays
            /\ last' = CallRecord("async_set_outlet", outlet, state, status_answer, out)
            /\ UNCHANGED <<external_session, closed, input, external_auth, batch, inflight,
                           cached_device_info, calls>>

NextLegacy == LegacySetOutlet

SpecLegacy == InitLegacy /\ [][NextLegacy]_vars

TypeOK ==
    /\ session \in 0 .. MaxSessions
    /\ nsessions \in 0 .. MaxSessions
    /\ external_session \in BOOLEAN
    /\ closed \subseteq 1 .. MaxSessions
    /\ Len(reqs) <= NUM_OUTLETS

----------------------------------------------------------------------------
(* Properties                                                              *)

\* the comma-separated fields of the text that was handed to the status parser
ParsedParts == Split(last.parsed.val, ",")
StatusParsed == last.op \in {"parse_status_response", "get_status"} /\ last.parsed.some

\* the outlets a returned status reports ON
OnSet(status) == { o \in DOMAIN status.outlets : status.outlets[o] }

WellFormedCurrents == { <<"2", ".", "5", "0">>, <<"0", ".", "0", "0">> }

\* C1: whenever the status parser returns a status, outlet o is ON exactly
\* when the character at 0-based position N - o of the outlet field is '1'
\* (the rightmost character is outlet 1); and a status text built from a set
\* S of ON outlets parses to a status whose ON outlets are exactly S.
C1_StatusBitOrderAndRoundTrip ==
    last.op = "parse_status_response" =>
        /\ Returned(last.result) =>
              \A o \in 1 .. NUM_OUTLETS :
                  last.result.val.outlets[o] = (ParsedParts[2][(NUM_OUTLETS - o) + 1] = "1")
        /\ \A on_set \in SUBSET (1 .. NUM_OUTLETS), c \in WellFormedCurrents,
              t \in TemperatureFields :
              input = BuildStatus(on_set, c, t) =>
                  Returned(last.result) /\ OnSet(last.result.val) = on_set

\* "$A0,01010,1.25-like" mixed state: outlets 2 and 4 ON, recovered by the parser
C1_Witness ==
    /\ last.op = "parse_status_response"
    /\ input = BuildStatus({2, 4}, <<"2", ".", "5", "0">>, <<"2", "5">>)
    /\ Returned(last.result)
    /\ OnSet(last.result.val) = {2, 4}

\* C2: the status parser raises ParseError for every text with fewer than 3
\* comma-separated fields, or whose first field lacks the $A0 prefix, or
\* whose outlet field is not exactly N characters long, or whose current
\* field is not text that float() accepts.
C2_MalformedStatusIsParseError ==
    StatusParsed =>
        ( ( \/ Len(ParsedParts) < 3
            \/ ~StartsWith(ParsedParts[1], RESPONSE_SUCCESS)
            \/ Len(ParsedParts[2]) # NUM_OUTLETS
            \/ ~IsFloatText(ParsedParts[3]) )
          => Raised(last.result, "ParseError") )

\* a frame that is well formed except for its current field "abc"
C2_Witness ==
    /\ last.op = "parse_status_response"
    /\ Len(ParsedParts) >= 3
    /\ ParsedParts[1] = RESPONSE_SUCCESS
    /\ Len(ParsedParts[2]) = NUM_OUTLETS
    /\ ParsedParts[3] = <<"a", "b", "c">>
    /\ Raised(last.result, "ParseError")

\* C3 as stated: the status parser raises ParseError whenever field 0 is not
\* exactly the success sentinel $A0.
C3_FirstFieldMustEqualSentinel ==
    StatusParsed =>
        (ParsedParts[1] # RESPONSE_SUCCESS => Raised(last.result, "ParseError"))

\* C3 as amended: the status parser raises ParseError whenever field 0 does
\* not start with the success sentinel $A0, so a status is returned only for
\* a first field that begins with $A0.
C3_FirstFieldMustStartWithSentinel ==
    StatusParsed =>
        /\ ~StartsWith(ParsedParts[1], RESPONSE_SUCCESS) => Raised(last.result, "ParseError")
        /\ Returned(last.result) => StartsWith(ParsedParts[1], RESPONSE_SUCCESS)

\* a frame that is well formed except for its first field "INVALID"
C3_Witness ==
    /\ last.op = "parse_status_response"
    /\ Len(ParsedParts) >= 3
    /\ ParsedParts[1] = <<"I", "N", "V", "A", "L", "I", "D">>
    /\ Len(ParsedParts[2]) = NUM_OUTLETS
    /\ IsFloatText(ParsedParts[3])
    /\ Raised(last.result, "ParseError")

\* C4: every status get_status returns has exactly the keys 1..N, each backed
\* by one character of an N-character outlet field; a response whose outlet
\* field has another length is a ParseError, never a status with fewer or
\* other keys.
C4_StatusKeysExactlyOutlets ==
    last.op = "get_status" =>
        /\ Returned(last.result) =>
              /\ DOMAIN last.result.val.outlets = 1 .. NUM_OUTLETS
              /\ Len(ParsedParts[2]) = NUM_OUTLETS
        /\ ( /\ last.parsed.some
             /\ Len(ParsedParts) >= 3
             /\ Len(ParsedParts[2]) # NUM_OUTLETS )
           => Raised(last.result, "ParseError")

\* get_status has returned a status for a 200 answer
C4_Witness ==
    /\ last.op = "get_status"
    /\ Returned(last.result)
    /\ DOMAIN last.result.val.outlets = 1 .. NUM_OUTLETS
    /\ OnSet(last.result.val) = {1, 3, 5}

\* C5: in a returned status the temperature is field 3 of the parsed text,
\* verbatim as text, when the text has more than 3 fields, and the absent
\* value when it has exactly 3.
C5_TemperatureVerbatimOrAbsent ==
    (StatusParsed /\ Returned(last.result)) =>
        /\ Len(ParsedParts) > 3 => last.result.val.temperature = Some(ParsedParts[4])
        /\ Len(ParsedParts) = 3 => last.result.val.temperature = None

\* "$A0,00000,0.00,XX": the sentinel "XX" is kept as the text "XX"
C5_Witness ==
    /\ last.op = "parse_status_response"
    /\ input = BuildStatus({}, <<"0", ".", "0", "0">>, <<"X", "X">>)
    /\ Returned(last.result)
    /\ last.result.val.temperature = Some(<<"X", "X">>)

OutletOps == {"get_outlet_state", "set_outlet", "turn_on", "turn_off", "toggle_outlet"}

\* C6: a call of get_outlet_state, set_outlet, turn_on, turn_off or
\* toggle_outlet with an outlet number outside 1..N raises InvalidOutletError
\* and issues no HTTP request.
C6_InvalidOutletNoRequest ==
    (last.op \in OutletOps /\ last.outlet \notin 1 .. NUM_OUTLETS) =>
        /\ Raised(last.result, "InvalidOutletError")
        /\ reqs = <<>>

\* get_outlet_state(6) on a 5-outlet device
C6_Witness ==
    /\ last.op = "get_outlet_state"
    /\ last.outlet = NUM_OUTLETS + 1
    /\ Raised(last.result, "InvalidOutletError")
    /\ reqs = <<>>

\* the value token a set command has to carry
ExpectedValueToken ==
    CASE last.op = "turn_on" -> <<"1">>
      [] last.op = "turn_off" -> <<"0">>
      [] OTHER -> IF last.state THEN <<"1">> ELSE <<"0">>

\* C7: set_outlet(o, s), turn_on(o) and turn_off(o) with a valid outlet send
\* exactly one command, whose tokens separated by single spaces are $A3, the
\* 1-based outlet number and 1 (ON) or 0 (OFF), and which holds no comma.
C7_SetCommandSpaceSeparated ==
    (last.op \in {"set_outlet", "turn_on", "turn_off"} /\ last.outlet \in 1 .. NUM_OUTLETS) =>
        /\ Len(reqs) = 1
        /\ Split(reqs[1].command, " ")
               = << <<"$", "A", "3">>, <<DigitChar(last.outlet)>>, ExpectedValueToken >>
        /\ \A i \in 1 .. Len(reqs[1].command) : reqs[1].command[i] # ","

\* turn_off(5) sent "$A3 5 0"
C7_Witness ==
    /\ last.op = "turn_off"
    /\ last.outlet = 5
    /\ Len(reqs) = 1
    /\ reqs[1].command = <<"$", "A", "3", " ", "5", " ", "0">>

\* C8: toggle_outlet(o) with a valid outlet sends exactly one command,
\* "rly=" followed by the 0-based relay index o - 1.
C8_ToggleZeroBasedIndex ==
    (last.op = "toggle_outlet" /\ last.outlet \in 1 .. NUM_OUTLETS) =>
        /\ Len(reqs) = 1
        /\ reqs[1].command = <<"r", "l", "y", "=", DigitChar(last.outlet - 1)>>

\* toggle_outlet(1) sent "rly=0"
C8_Witness ==
    /\ last.op = "toggle_outlet"
    /\ last.outlet = 1
    /\ Len(reqs) = 1
    /\ reqs[1].command = <<"r", "l", "y", "=", "0">>

\* C9: one command send with an HTTP answer: 401 raises AuthenticationError;
\* any other non-200 status raises ConnectionError; 200 with a trimmed body
\* starting with $AF raises CommandError carrying the command and the trimmed
\* body; any other 200 returns the trimmed body.  Only a 200 answer can
\* raise CommandError.
C9_SendCommandClassification ==
    (last.op = "send_command" /\ last.answer.kind = "http") =>
        LET status == last.answer.status
            body == Strip(last.answer.body)
            failed == StartsWith(body, <<"$", "A", "F">>)
        IN  /\ status = 401 => Raised(last.result, "AuthenticationError")
            /\ status \notin {200, 401} => Raised(last.result, "ConnectionError")
            /\ (status = 200 /\ failed) =>
                   /\ Raised(last.result, "CommandError")
                   /\ last.result.command = reqs[1].command
                   /\ last.result.response = body
            /\ (status = 200 /\ ~failed) =>
                   Returned(last.result) /\ last.result.val = body
            /\ status # 200 => ~Raised(last.result, "CommandError")

\* a 401 answer whose body starts with $AF is an AuthenticationError
C9_Witness ==
    /\ last.op = "send_command"
    /\ last.answer.kind = "http"
    /\ last.answer.status = 401
    /\ StartsWith(last.answer.body, <<"$", "A", "F">>)
    /\ Raised(last.result, "AuthenticationError")

\* C10 as stated: a request that times out or cannot reach the device makes
\* the public method that issued it raise ConnectionError and nothing else.
C10_TransportFailureIsConnectionError ==
    (last.op \in OutletOps \cup {"get_status"} /\ last.answer.kind = "exc") =>
        Raised(last.result, "ConnectionError")

SingleRequestOps ==
    {"get_status", "get_outlet_state", "set_outlet", "turn_on", "turn_off", "toggle_outlet"}

\* C11 as stated: every public method other than the two batch methods,
\* get_device_info included, issues at most one HTTP request per call.
C11_AtMostOneRequestPerCall ==
    (last.op \in SingleRequestOps \cup {"get_device_info"}) => Len(reqs) <= 1

\* C11, amended: get_status, get_outlet_state, set_outlet, turn_on, turn_off and
\* toggle_outlet issue at most one request per call.  get_device_info issues the
\* $A8 command once, and a second request, the GET of the web page, exactly when
\* the command was answered and parsed; the page is requested once.  No command
\* is sent twice in a call, and a failed command request is surfaced as the
\* outcome of the call after that one attempt.
C11_OneCommandRequestPerCall ==
    /\ last.op \in SingleRequestOps => Len(reqs) <= 1
    /\ last.op = "get_device_info" =>
          /\ Len(reqs) \in {1, 2}
          /\ reqs[1].command = CMD_GET_INFO /\ ~reqs[1].page
          /\ Len(reqs) = 2 <=> Returned(last.result)
          /\ Len(reqs) = 2 => reqs[2].page /\ reqs[2].command = PAGE_FETCH
    /\ (last.op \in SingleRequestOps \cup {"get_device_info"} /\ Len(reqs) >= 1) =>
          /\ \A i, j \in 1 .. Len(reqs) : reqs[i].command = reqs[j].command => i = j
          /\ LET response == send_command(reqs[1].command, reqs[1].answer)
             IN  ~Returned(response) => (last.result = response /\ Len(reqs) = 1)

\* get_device_info answered and parsed, then the page fetched and a MAC found in it
C11_Witness ==
    /\ last.op = "get_device_info"
    /\ Returned(last.result)
    /\ Len(reqs) = 2
    /\ reqs[2].page
    /\ last.result.val.mac_address.some

BatchDone == last.op \in {"turn_on_all", "turn_off_all"} /\ last.result # Pending

\* the request for outlet k failed: transport, authentication, status or $AF
BatchRequestFailed(k) ==
    \/ reqs[k].answer.kind = "exc"
    \/ /\ reqs[k].answer.kind = "http"
       /\ \/ reqs[k].answer.status # 200
          \/ StartsWith(Strip(reqs[k].answer.body), <<"$", "A", "F">>)

\* C12: turn_on_all and turn_off_all never raise on a per-outlet failure and
\* return a map whose keys are exactly 1..N; the entry of outlet k is false when
\* that outlet's command raised (transport, authentication, CommandError) and
\* is the set command's boolean result otherwise.
C12_BatchResultPerOutlet ==
    /\ batch.pc = "loop" => ~batch.raised.some
    /\ BatchDone =>
          /\ Returned(last.result)
          /\ DOMAIN last.result.val = 1 .. NUM_OUTLETS
          /\ \A k \in 1 .. NUM_OUTLETS :
                last.result.val[k] =
                    IF BatchRequestFailed(k) THEN FALSE
                    ELSE StartsWith(Strip(reqs[k].answer.body), <<"$", "A", "0">>)

\* turn_on_all with only outlet 3 failing, on a transport error
C12_Witness ==
    /\ BatchDone
    /\ last.op = "turn_on_all"
    /\ reqs[3].answer = TransportError("TimeoutError")
    /\ last.result = Return(<<TRUE, TRUE, FALSE, TRUE, TRUE>>)

\* C13: turn_on_all and turn_off_all send one set command per outlet, in the
\* order 1, 2, ..., N; the command of outlet k+1 is sent only after the request
\* of outlet k has completed, so at most one request is outstanding; a failure
\* at outlet k does not stop the commands of outlets k+1..N.
C13_BatchSequentialInOrder ==
    /\ Cardinality(inflight) <= 1
    /\ (batch.pc = "loop" \/ BatchDone) =>
          /\ \A i \in 1 .. Len(reqs) :
                /\ reqs[i].command =
                       <<"$", "A", "3", " ">> \o <<DigitChar(i)>> \o
                           <<" ", IF last.state THEN "1" ELSE "0">>
                /\ i < Len(reqs) => reqs[i].answer # NoAnswer
                /\ reqs[i].answer = NoAnswer <=> <<i, i>> \in inflight
          /\ batch.pc = "loop" => Len(reqs) = batch.outlet - 1
    /\ BatchDone => Len(reqs) = NUM_OUTLETS

\* the first outlet's request failed and all five commands were still sent
C13_Witness ==
    /\ BatchDone
    /\ Len(reqs) = NUM_OUTLETS
    /\ BatchRequestFailed(1)
    /\ BatchRequestFailed(3)
    /\ ~BatchRequestFailed(NUM_OUTLETS)

IsUnauthorized(answer) == answer.kind = "http" /\ answer.status = 401

\* C14: a 401 answer during get_status raises AuthenticationError and leaves the
\* client as it was: the session that carried the request stays open and stays
\* the client's session (the one it had before, if it had one), nothing is
\* closed and no other field changes; the next call goes through that same
\* session as a fresh request, and its outcome is decided by the answer to that
\* request (a valid status answered with 200 makes get_status return it).
C14_UnauthorizedLeavesClientUsable ==
    [][ /\ (last'.op = "get_status" /\ IsUnauthorized(last'.answer)) =>
              /\ Raised(last'.result, "AuthenticationError")
              /\ Len(reqs') = 1
              /\ session' # 0 /\ session' = reqs'[1].session /\ session' \notin closed'
              /\ closed' = closed
              /\ external_session' = external_session /\ external_auth' = external_auth
              /\ session # 0 => (session' = session /\ nsessions' = nsessions)
        /\ (last.op = "get_status" /\ IsUnauthorized(last.answer) /\ Len(reqs') >= 1) =>
              /\ reqs'[1].session = session
              /\ nsessions' = nsessions
              /\ reqs'[1].answer = last'.answer
              /\ (last'.op = "get_status" /\ last'.answer.kind = "http"
                     /\ last'.answer.status = 200 /\ last'.answer.body \in StatusFrames) =>
                    (Returned(last'.result) /\ last'.result.val.raw_response = last'.answer.body)
              /\ (last'.op = "get_status" /\ IsUnauthorized(last'.answer)) =>
                    Raised(last'.result, "AuthenticationError")
      ]_vars

\* get_status was answered 401 and the session it went through is still open
C14_Witness ==
    /\ last.op = "get_status"
    /\ IsUnauthorized(last.answer)
    /\ Raised(last.result, "AuthenticationError")
    /\ session # 0
    /\ session \notin closed
    /\ reqs[1].session = session

\* C15 as stated: every request the client issues, command or page fetch,
\* carries the configured Basic Authentication credentials, with a session of
\* its own and with a session supplied by the caller alike.
C15_EveryRequestCarriesCredentials ==
    \A i \in 1 .. Len(reqs) : reqs[i].auth

\* the sessions the client created itself that are still open
OwnOpenSessions == ((IF external_session THEN 2 ELSE 1) .. nsessions) \ closed

\* C16: without a supplied session the client starts closed (no session); a
\* session is created only by a step that finds none, namely a call that
\* issues a request or __aenter__; entering or calling with a session in place
\* creates nothing; and at no time are two sessions the client created open.
C16_LazySingleSession ==
    /\ (~external_session => (session = 0 /\ nsessions = 0))
    /\ [][ /\ nsessions' # nsessions =>
                 /\ session = 0
                 /\ nsessions' = nsessions + 1
                 /\ session' = nsessions'
                 /\ Len(reqs') >= 1 \/ last'.op = "aenter"
           /\ (session = 0 /\ (Len(reqs') >= 1 \/ last'.op = "aenter")) =>
                 (session' # 0 /\ nsessions' = nsessions + 1)
           /\ (session # 0 /\ last'.op \notin {"close", "aexit"}) =>
                 (session' = session /\ nsessions' = nsessions)
          ]_vars
    /\ [](Cardinality(OwnOpenSessions) <= 1 /\ OwnOpenSessions \subseteq {session})

\* the first request of a client constructed without a session created one
C16_Witness ==
    /\ ~external_session
    /\ last.op = "get_status"
    /\ Len(reqs) = 1
    /\ nsessions = 1
    /\ session = 1
    /\ reqs[1].session = 1

\* C17: close() never raises; with no session (never opened, or closed before)
\* it changes nothing; with an open session the client owns it closes that
\* session, which was not closed before, and leaves the client without one; the
\* client never holds a closed session, and a request made after close() goes
\* through a newly created session.
C17_CloseIdempotentAndReopens ==
    /\ [][ /\ last'.op = "close" =>
                 /\ last'.result = Return(None)
                 /\ reqs' = <<>>
                 /\ nsessions' = nsessions
                 /\ session = 0 => (session' = 0 /\ closed' = closed)
                 /\ (session # 0 /\ ~external_session) =>
                       /\ session \notin closed
                       /\ closed' = closed \cup {session}
                       /\ session' = 0
           /\ (last.op = "close" /\ ~external_session /\ Len(reqs') >= 1) =>
                 /\ reqs'[1].session = nsessions + 1
                 /\ reqs'[1].session \notin closed'
                 /\ session' = reqs'[1].session
          ]_vars
    /\ [](session \notin closed)

\* after close() of an owned session, a call went through a second session
C17_Witness ==
    /\ ~external_session
    /\ closed = {1}
    /\ session = 2
    /\ Len(reqs) >= 1
    /\ reqs[1].session = 2

CommandOps == {"set_outlet", "turn_on", "turn_off", "toggle_outlet"}

\* C18: for a valid outlet, when set_outlet (turn_on, turn_off) or toggle_outlet
\* returns, its result is true exactly when the trimmed response body starts
\* with $A0; a 200 body that starts with neither $A0 nor $AF gives false
\* without raising; and nothing is returned unless the device answered 200.
C18_CommandResultIsSuccessPrefix ==
    (last.op \in CommandOps /\ last.outlet \in 1 .. NUM_OUTLETS) =>
        /\ Returned(last.result) =>
              /\ last.answer.kind = "http"
              /\ last.answer.status = 200
              /\ last.result.val \in BOOLEAN
              /\ last.result.val <=>
                    StartsWith(Strip(last.answer.body), <<"$", "A", "0">>)
        /\ ( /\ last.answer.kind = "http"
             /\ last.answer.status = 200
             /\ ~StartsWith(Strip(last.answer.body), <<"$", "A", "0">>)
             /\ ~StartsWith(Strip(last.answer.body), <<"$", "A", "F">>) ) =>
              last.result = Return(FALSE)

\* toggle_outlet answered 200 "OK": false, no error
C18_Witness ==
    /\ last.op = "toggle_outlet"
    /\ last.outlet \in 1 .. NUM_OUTLETS
    /\ last.answer = HttpAnswer(200, <<"O", "K">>)
    /\ last.result = Return(FALSE)

InfoParsed == last.op = "parse_device_info_response"

\* C19: the device-info parser fails with ParseError for every response that
\* does not start with "$A0," ("INVALID", "$AF,Error" and a bare "$A0" among
\* them) and succeeds for every response that does.
C19_InfoPrefixOrParseError ==
    InfoParsed =>
        IF Len(input) >= 4 /\ SubSeq(input, 1, 4) = <<"$", "A", "0", ",">>
        THEN Returned(last.result) /\ last.result.val.raw_response = input
        ELSE Raised(last.result, "ParseError")

\* a bare "$A0", without the comma, is refused
C19_Witness ==
    /\ InfoParsed
    /\ input = <<"$", "A", "0">>
    /\ Raised(last.result, "ParseError")

\* the details segment of the parsed response: field 1 of the text after "$A0,"
InfoParts == Split(SubSeq(input, 5, Len(input)), ",")
InfoDetailsOf == Strip(InfoParts[2])

\* the places of the details where a marker is followed by a dotted number
MarkerPlaces(marker) ==
    { i \in 1 .. Len(InfoDetailsOf) : VersionAt(InfoDetailsOf, i, marker) }
FirstPlace(marker) == CHOOSE i \in MarkerPlaces(marker) : \A j \in MarkerPlaces(marker) : i <= j

\* the trimmed text that remains after the first BL<version> token
TextAfterBootloader ==
    Strip(SubSeq(InfoDetailsOf,
                 VersionSpan(InfoDetailsOf, FirstPlace(<<"B", "L">>), <<"B", "L">>)[2] + 1,
                 Len(InfoDetailsOf)))

\* C20 as stated: in a parsed device info, hardware_version and
\* bootloader_version are the dotted numbers following HW and BL, and
\* firmware_version is the trimmed text remaining after the BL<version> token;
\* each is absent exactly when its marker is not found (for the firmware: no
\* BL<version> token, or nothing after it), and without a details segment only
\* the model is populated.
C20_VersionsFollowTheirMarkers ==
    (InfoParsed /\ Returned(last.result)) =>
        LET info == last.result.val
        IN  IF Len(InfoParts) < 2
            THEN /\ info.hardware_version = None
                 /\ info.bootloader_version = None
                 /\ info.firmware_version = None
            ELSE /\ info.hardware_version.some <=> MarkerPlaces(<<"H", "W">>) # {}
                 /\ info.bootloader_version.some <=> MarkerPlaces(<<"B", "L">>) # {}
                 /\ info.firmware_version.some <=>
                       (MarkerPlaces(<<"B", "L">>) # {} /\ TextAfterBootloader # <<>>)
                 /\ info.firmware_version.some =>
                       info.firmware_version.val = TextAfterBootloader

\* the text after "$A0," and the place of its first comma (0: none)
InfoData == SubSeq(input, 5, Len(input))
InfoFirstComma == FirstOf(InfoData, {","})

\* all of the text after the first comma, trimmed
InfoDetailsAfterFirstComma == Strip(SubSeq(InfoData, InfoFirstComma + 1, Len(InfoData)))

\* C21 as stated: the device-info parser splits the text after "$A0," on the
\* first comma only; model is the trimmed text before it and the details are all
\* of the text after it, later commas included, so the three versions are the
\* ones found in that whole text.
C21_DetailsKeepLaterCommas ==
    (InfoParsed /\ Returned(last.result)) =>
        LET info == last.result.val
        IN  IF InfoFirstComma = 0
            THEN info.model = Strip(InfoData)
            ELSE /\ info.model = Strip(SubSeq(InfoData, 1, InfoFirstComma - 1))
                 /\ info.hardware_version = HardwareVersion(InfoDetailsAfterFirstComma)
                 /\ info.bootloader_version = BootloaderVersion(InfoDetailsAfterFirstComma)
                 /\ info.firmware_version = FirmwareVersion(InfoDetailsAfterFirstComma)

\* the page fetch of the last get_device_info brought a 200 page with a MAC in it
PageHasMac ==
    /\ reqs[2].answer.kind = "http"
    /\ reqs[2].answer.status = 200
    /\ \E i \in 1 .. Len(reqs[2].answer.body) : MacAt(reqs[2].answer.body, i)

\* C22: once the $A8 command has succeeded and its response parsed,
\* get_device_info returns whatever the page fetch does: without a 200 page
\* holding a MAC pattern (any other status, 401 included, a transport error, a
\* timeout, no match) it returns the parsed info with mac_address unset; with
\* one, only mac_address differs from the parsed info.
C22_PageFetchNeverFailsDeviceInfo ==
    (last.op = "get_device_info" /\ last.parsed.some
        /\ Returned(parse_device_info_response(last.parsed.val))) =>
        LET parsed == parse_device_info_response(last.parsed.val).val
        IN  /\ Returned(last.result)
            /\ Len(reqs) = 2
            /\ [last.result.val EXCEPT !.mac_address = None] = parsed
            /\ last.result.val.mac_address.some <=> PageHasMac
            /\ PageHasMac => Len(last.result.val.mac_address.val) = 17

\* the page fetch timed out and the parsed info was returned without a MAC
C22_Witness ==
    /\ last.op = "get_device_info"
    /\ Len(reqs) = 2
    /\ reqs[2].answer = TransportError("TimeoutError")
    /\ Returned(last.result)
    /\ last.result.val.mac_address = None
    /\ last.result.val.hardware_version = Some(<<"4", ".", "3">>)

\* positions in a sequence of calls at which the method op was called
CallsOf(cs, op) == { i \in 1 .. Len(cs) : cs[i].op = op }

FailedWithNetCommanderError(result) ==
    ~Returned(result) /\ result.exc \in
        {"AuthenticationError", "ConnectionError", "CommandError", "InvalidOutletError",
         "ParseError"}

\* C23: an update calls get_device_info exactly when no device info is cached,
\* and the cache, once filled by a successful call, is never fetched or changed
\* again; an update whose get_device_info did not fail calls get_status exactly
\* once, as its last call; a NetCommanderError of either call makes the update
\* raise UpdateFailed; a failed get_device_info leaves the cache empty (so the
\* next update fetches again) and a successful one fills it with its result.
C23_DeviceInfoFetchedUntilCached ==
    [][ /\ cached_device_info # None => cached_device_info' = cached_device_info
        /\ last'.op = "_async_update_data" =>
              LET fetched == CallsOf(calls', "get_device_info")
                  polled == CallsOf(calls', "get_status")
                  info_failed == fetched # {} /\ ~Returned(calls'[1].result)
              IN  /\ fetched # {} <=> cached_device_info = None
                  /\ fetched \subseteq {1}
                  /\ polled = IF info_failed THEN {} ELSE {Len(calls')}
                  /\ fetched \cup polled = 1 .. Len(calls')
                  /\ \A i \in 1 .. Len(calls') :
                        FailedWithNetCommanderError(calls'[i].result) =>
                            Raised(last'.result, "UpdateFailed")
                  /\ info_failed => cached_device_info' = None
                  /\ (fetched # {} /\ ~info_failed) =>
                        cached_device_info' = Some(calls'[1].result.val)
                  /\ Returned(last'.result) => last'.result = calls'[Len(calls')].result
      ]_vars

\* an update whose get_device_info failed: UpdateFailed, cache still empty
C23_Witness ==
    /\ last.op = "_async_update_data"
    /\ Len(calls) = 1
    /\ calls[1].op = "get_device_info"
    /\ Raised(calls[1].result, "ParseError")
    /\ Raised(last.result, "UpdateFailed")
    /\ cached_device_info = None

\* C24: async_turn_on(o) and async_turn_off(o) call the client's turn_on(o) or
\* turn_off(o) once (one set command on the wire for a valid outlet); when it
\* succeeds they request one refresh after it and return its result; when it
\* raises NetCommanderError they return False and request no refresh.
C24_SwitchRefreshesOnlyOnSuccess ==
    (last.op \in {"async_turn_on", "async_turn_off"}) =>
        /\ Len(calls) >= 1
        /\ calls[1].op = (IF last.op = "async_turn_on" THEN "turn_on" ELSE "turn_off")
        /\ calls[1].outlet = last.outlet
        /\ CallsOf(calls, "turn_on") \cup CallsOf(calls, "turn_off") = {1}
        /\ last.outlet \in 1 .. NUM_OUTLETS =>
              /\ Len(reqs) = 1
              /\ reqs[1].command = <<"$", "A", "3", " ", DigitChar(last.outlet), " ",
                                     IF last.op = "async_turn_on" THEN "1" ELSE "0">>
        /\ Returned(calls[1].result) =>
              /\ Len(calls) = 2
              /\ calls[2].op = "async_request_refresh"
              /\ last.result = calls[1].result
        /\ FailedWithNetCommanderError(calls[1].result) =>
              /\ Len(calls) = 1
              /\ last.result = Return(FALSE)

\* async_turn_off whose command the device refused: False, no refresh
C24_Witness ==
    /\ last.op = "async_turn_off"
    /\ Raised(calls[1].result, "CommandError")
    /\ Len(calls) = 1
    /\ last.result = Return(FALSE)

\* C25 as stated, its last part: when turn_on raises NetCommanderError after a
\* successful turn_off, OFF is the last command sent.
C25_FailedOnLeavesOffLastSent ==
    ( /\ last.op = "async_reboot_outlet"
      /\ last.outlet \in 1 .. NUM_OUTLETS
      /\ Returned(calls[1].result)
      /\ FailedWithNetCommanderError(calls[3].result) ) =>
        reqs[Len(reqs)].command = <<"$", "A", "3", " ", DigitChar(last.outlet), " ", "0">>

\* C25, amended: async_reboot_outlet(o) calls turn_off(o), then sleeps, then calls
\* turn_on(o), in that order, then requests one refresh and returns turn_on's
\* result; turn_on is not called unless turn_off returned; if either raises
\* NetCommanderError the call returns False and requests no refresh.  When
\* turn_on fails after turn_off returned, both commands have gone out, OFF then
\* ON, and nothing follows: the failed ON command is the last one sent.
C25_RebootOffWaitOn ==
    (last.op = "async_reboot_outlet") =>
        LET off_ok == Returned(calls[1].result)
            on_ok == off_ok /\ Returned(calls[3].result)
        IN  /\ calls[1].op = "turn_off" /\ calls[1].outlet = last.outlet
            /\ CallsOf(calls, "turn_off") = {1}
            /\ off_ok =>
                  /\ Len(calls) >= 3
                  /\ calls[2].op = "asyncio.sleep"
                  /\ calls[3].op = "turn_on" /\ calls[3].outlet = last.outlet
            /\ CallsOf(calls, "turn_on") = (IF off_ok THEN {3} ELSE {})
            /\ CallsOf(calls, "async_request_refresh") = (IF on_ok THEN {4} ELSE {})
            /\ Len(calls) = (IF on_ok THEN 4 ELSE IF off_ok THEN 3 ELSE 1)
            /\ on_ok => last.result = calls[3].result
            /\ (\E i \in 1 .. Len(calls) : FailedWithNetCommanderError(calls[i].result)) =>
                  last.result = Return(FALSE)
            /\ (off_ok /\ ~on_ok) =>
                  /\ Len(reqs) = 2
                  /\ reqs[1].command = <<"$", "A", "3", " ", DigitChar(last.outlet), " ", "0">>
                  /\ reqs[2].command = <<"$", "A", "3", " ", DigitChar(last.outlet), " ", "1">>

\* turn_off succeeded, turn_on could not reach the device: False, no refresh
C25_Witness ==
    /\ last.op = "async_reboot_outlet"
    /\ calls[1].result = Return(TRUE)
    /\ Len(calls) = 3
    /\ Raised(calls[3].result, "ConnectionError")
    /\ last.result = Return(FALSE)

\* C26: validate_input calls close() on the client it created once, after
\* get_device_info, whatever that call did (returned, AuthenticationError,
\* ConnectionError, timeout, any other error), so the session the client opened
\* is closed; AuthenticationError becomes InvalidAuth, connection and timeout
\* errors become CannotConnect; on success unique_id is the MAC address when
\* there is one and the host otherwise.
C26_ValidateInputClosesAndMaps ==
    (last.op = "validate_input") =>
        /\ Len(calls) = 2
        /\ calls[1].op = "get_device_info"
        /\ CallsOf(calls, "close") = {2}
        /\ session = 0
        /\ Len(reqs) >= 1
        /\ \A i \in 1 .. Len(reqs) : reqs[i].session \in closed
        /\ 1 .. nsessions \subseteq closed
        /\ Raised(calls[1].result, "AuthenticationError") => Raised(last.result, "InvalidAuth")
        /\ (Raised(calls[1].result, "ConnectionError")
               \/ Raised(calls[1].result, "TimeoutError")) =>
              Raised(last.result, "CannotConnect")
        /\ Raised(calls[1].result, "ParseError") => Raised(last.result, "ParseError")
        /\ Returned(calls[1].result) =>
              /\ Returned(last.result)
              /\ last.result.val.model = calls[1].result.val.model
              /\ last.result.val.unique_id =
                    IF calls[1].result.val.mac_address.some
                    THEN calls[1].result.val.mac_address.val ELSE input

\* a device whose page shows its MAC: the MAC is the unique id, the client is closed
C26_Witness ==
    /\ last.op = "validate_input"
    /\ Returned(last.result)
    /\ last.result.val.unique_id = <<"0", "C", ":", "7", "3", ":", "E", "B", ":", "B", "0", ":", "9", "E", ":", "5", "C">>
    /\ last.result.val.unique_id # input
    /\ CallsOf(calls, "close") = {2}
    /\ reqs[1].session \in closed

\* the sessions the client created itself
CreatedSessions == (1 .. nsessions) \ (IF external_session THEN {1} ELSE {})

\* C27: after __aenter__ the client holds an open session; after __aexit__,
\* whether the body ended normally or raised (a typed error of the client or
\* anything else), every session the client created is closed, a client that
\* owns its sessions holds none, and the with statement ends as the body did.
C27_ContextManagerReleasesSession ==
    /\ (last.op = "aenter") => (session # 0 /\ session \notin closed)
    /\ (last.op = "aexit") =>
          /\ CreatedSessions \subseteq closed
          /\ ~external_session => session = 0
          /\ last.result = last.answer
          /\ last.answer \in BlockOutcomes

\* a block whose body raised a typed error: the session it used is closed
C27_Witness ==
    /\ last.op = "aexit"
    /\ Raised(last.result, "AuthenticationError")
    /\ ~external_session
    /\ session = 0
    /\ nsessions >= 1
    /\ closed = 1 .. nsessions

\* C28 as stated: for every input text the status parser returns a
\* DeviceStatus or raises ParseError and no other exception; a well-formed
\* response whose current is numeric but negative is reported as ParseError.
C28_StatusParserReturnsOrParseError ==
    (last.op = "parse_status_response") =>
        /\ Returned(last.result) \/ Raised(last.result, "ParseError")
        /\ (Len(Split(input, ",")) >= 3 /\ Split(input, ",")[3] = <<"-", "1", ".", "0", "0">>) =>
              Raised(last.result, "ParseError")

\* the relay that async_set_outlet(outlet, ...) addresses, as the device shows it
LegacyOutletIsOn(outlet) == PyIndex(relays, outlet - 1) = "1"

\* C30: async_set_outlet reads the status first; it sends "rly=<5 - outlet>",
\* once, only when the bit it read at position outlet - 1 differs from the
\* wanted state; when the bit equals the wanted state it returns True with no
\* command sent; when the status read fails, has fewer than 2 fields or is too
\* short it returns False with no command sent; and, nobody else changing the
\* device meanwhile, a True result means the addressed relay is in the wanted
\* state.
C30_LegacySetOutletTogglesOnlyOnDifference ==
    (last.op = "async_set_outlet") =>
        LET status == async_get_status(last.answer)
            parts == Split(Strip(status.val), ",")
            unreadable == \/ ~status.some
                          \/ Len(parts) < 2
                          \/ Len(parts[2]) <= last.outlet - 1
        IN  /\ Len(reqs) \in {1, 2}
            /\ reqs[1].command = CMD_GET_STATUS
            /\ Len(reqs) = 2 =>
                  /\ reqs[2].command = CMD_TOGGLE_OUTLET \o <<"=">> \o IntStr(5 - last.outlet)
                  /\ ~unreadable
                  /\ (parts[2][last.outlet] = "1") # last.state
            /\ unreadable => (Len(reqs) = 1 /\ last.result = Return(FALSE))
            /\ (~unreadable /\ (parts[2][last.outlet] = "1") = last.state) =>
                  (Len(reqs) = 1 /\ last.result = Return(TRUE))
            /\ last.result = Return(TRUE) => LegacyOutletIsOn(last.outlet) = last.state

\* an outlet that was OFF was switched ON by one toggle, after the status read
C30_Witness ==
    /\ last.op = "async_set_outlet"
    /\ last.state
    /\ last.parsed = Some(FALSE)
    /\ Len(reqs) = 2
    /\ last.result = Return(TRUE)
    /\ LegacyOutletIsOn(last.outlet)

\* C29: a session supplied at construction (identity 1) stays the client's
\* session and is never closed, and no other session is created beside it,
\* whatever commands, close() calls and context-manager exits happen; a session
\* the client created itself is closed and dropped by the first close() after
\* its creation.
C29_SuppliedSessionIsNeverClosed ==
    /\ [](external_session => (session = 1 /\ 1 \notin closed /\ nsessions = 1))
    /\ [][ (~external_session /\ session # 0 /\ last'.op = "close") =>
               (session \in closed' /\ session' = 0)
          ]_vars

\* close() and a context-manager exit have both run on a client with a supplied
\* session, which then served a command
C29_Witness ==
    /\ external_session
    /\ last.op = "get_status"
    /\ Len(reqs) = 1
    /\ reqs[1].session = 1
    /\ session = 1
    /\ 1 \notin closed

====
